---------------------------- MODULE Spec2Model ----------------------------
(***************************************************************************)
(* A model of vtkDelaunay2D (Filters/Core/vtkDelaunay2D.cxx): the          *)
(* incremental 2D Delaunay inserter, constraint-edge recovery, polygon     *)
(* fill, alpha filter, orphan rescue and output assembly.                  *)
(*                                                                         *)
(* Numbers.  Input points lie in the z = 0 plane on the integer grid, with *)
(* a bounding box that is a square or a segment of side 2, so the centre   *)
(* of the box is an integer point and the eight ring points, which the     *)
(* source computes with cos/sin/sqrt, have coordinates a + b*sqrt(2) with  *)
(* a and b integers.  Every coordinate is such a number, kept as the pair  *)
(* <<a, b>>, and every geometric predicate of the source (a comparison of  *)
(* doubles) is evaluated exactly on these numbers, after clearing          *)
(* denominators.  Thresholds of the source that are far below the          *)
(* resolution of these points (1e-14, Tolerance*Length, the factor         *)
(* 0.999999999999) are kept as exact conditions.                           *)
(***************************************************************************)
EXTENDS Integers, Sequences, FiniteSets, TLC

VARIABLES
  inPts,                  \* the input points: a sequence of <<x, y>>
  points,                 \* this->Points: input points, then the ring points
  BoundingTriangulation,  \* option
  Alpha2,                 \* option Alpha, kept as Alpha*Alpha (0: off)
  RandomPointInsertion,   \* option
  Transform,              \* "none" | "user" | "computed"
  ProjectionPlaneMode,    \* "xy" | "bestfit"
  AbortExecute,           \* the caller's abort flag
  srcLines,               \* constraint source: polylines (seqs of point ids)
  srcPolys,               \* constraint source: polygons (seqs of point ids)
  hasSource,              \* whether a constraint source is connected
  pc,                     \* position in RequestData
  cells,                  \* Mesh cells: cells[t+1] is triangle t's <<v0,v1,v2>>
  links,                  \* Mesh links: links[v] is the cell list of point v
  idx,                    \* insertion loop index
  tri0,                   \* tri[0]: where the next walk starts
  stack,                  \* pending CheckEdge calls of the current insertion
  NumberOfDuplicatePoints,
  NumberOfDegeneracies,
  triUse,                 \* <<>> until allocated, then one mark per triangle
  work,                   \* scratch of the stage in progress (a record)
  warnings,               \* set of warnings emitted so far
  out,                    \* the output record, and the return value
  prior                   \* what an earlier run of the same filter returned

vars == <<inPts, points, BoundingTriangulation, Alpha2, RandomPointInsertion, Transform,
          ProjectionPlaneMode, AbortExecute, srcLines, srcPolys, hasSource, pc,
          cells, links, idx, tri0, stack, NumberOfDuplicatePoints,
          NumberOfDegeneracies, triUse, work, warnings, out, prior>>

\* what a run of RequestData reads and leaves alone
config == <<inPts, BoundingTriangulation, Alpha2, RandomPointInsertion,
            ProjectionPlaneMode, AbortExecute, hasSource, prior>>

-----------------------------------------------------------------------------
(* Bounds of the model.                                                    *)

\* number of input points of a run that triangulates
NumPts == 4
\* longest walk FindTriangle is followed for
MaxWalk == 12
\* the value of Alpha*Alpha when the alpha criterion is on
AlphaSq == 1

-----------------------------------------------------------------------------
(* Arithmetic helpers.                                                     *)

Abs(a) == IF a < 0 THEN -a ELSE a

SeqToSet(s) == {s[i] : i \in 1..Len(s)}

SetMin(S) == CHOOSE a \in S : \A b \in S : a <= b

SetMax(S) == CHOOSE a \in S : \A b \in S : a >= b

Sign(n) == IF n > 0 THEN 1 ELSE IF n < 0 THEN 0 - 1 ELSE 0

\* the number a, as a + 0*sqrt(2)
R(a) == <<a, 0>>

Plus(x, y) == <<x[1] + y[1], x[2] + y[2]>>

Minus(x, y) == <<x[1] - y[1], x[2] - y[2]>>

Times(x, y) == <<x[1] * y[1] + 2 * x[2] * y[2], x[1] * y[2] + x[2] * y[1]>>

\* p / q > 1 + sqrt(2), for p >= 0 and q > 0, by the continued fraction
\* 1 + sqrt(2) = 2 + 1 / (1 + sqrt(2))
RECURSIVE AboveSilver(_, _)
AboveSilver(p, q) ==
  IF p \div q >= 3 THEN TRUE
  ELSE IF p \div q <= 1 \/ p % q = 0 THEN FALSE
  ELSE ~AboveSilver(q, p % q)

\* the sign of x[1] + x[2]*sqrt(2)
Sgn(x) ==
  IF x[2] = 0 \/ Sign(x[1]) = Sign(x[2]) THEN Sign(x[1])
  ELSE IF x[1] = 0 THEN Sign(x[2])
  ELSE IF AboveSilver(Abs(x[1]) + Abs(x[2]), Abs(x[2])) THEN Sign(x[1])
  ELSE Sign(x[2])

Less(x, y) == Sgn(Minus(x, y)) < 0

\* vectors: pairs of numbers
Sub(a, b) == <<Minus(a[1], b[1]), Minus(a[2], b[2])>>

Cross2D(a, b) == Minus(Times(a[1], b[2]), Times(a[2], b[1]))

Dot2D(a, b) == Plus(Times(a[1], b[1]), Times(a[2], b[2]))

Norm2(a) == Dot2D(a, a)

-----------------------------------------------------------------------------
(* Points: the N input points followed by the eight ring points.           *)

N == Len(inPts)

Xs(ps) == {ps[i][1] : i \in 1..Len(ps)}

Ys(ps) == {ps[i][2] : i \in 1..Len(ps)}

\* the centre of GetBounds() of a point sequence
BoundsCenter(ps) == <<(SetMin(Xs(ps)) + SetMax(Xs(ps))) \div 2,
                      (SetMin(Ys(ps)) + SetMax(Ys(ps))) \div 2>>

\* input->GetLength() squared: the diagonal of the bounding box of the input
Length2 == (SetMax(Xs(inPts)) - SetMin(Xs(inPts))) * (SetMax(Xs(inPts)) - SetMin(Xs(inPts)))
           + (SetMax(Ys(inPts)) - SetMin(Ys(inPts))) * (SetMax(Ys(inPts)) - SetMin(Ys(inPts)))

\* an input point as a point of the triangulation
Lift(p) == <<R(p[1]), R(p[2])>>

\* the transform in effect once RequestData has set it up
EffectiveTransform ==
  IF Transform = "none" /\ ProjectionPlaneMode = "bestfit" THEN "computed" ELSE Transform

\* Transform->TransformPoints: the user's transform of the model stretches y;
\* the one ComputeBestFittingPlane builds for inputs in the z = 0 plane that
\* span both axes is the translation of the centre of the bounds to the origin
TransformPoint(tf, p) ==
  CASE tf = "user" -> <<p[1], 2 * p[2]>>
    [] tf = "computed" -> <<p[1] - BoundsCenter(inPts)[1], p[2] - BoundsCenter(inPts)[2]>>
    [] OTHER -> p

\* points->DeepCopy(inPoints) or points->DeepCopy(tPoints)
TransformedInput(tf) == [i \in 1..N |-> TransformPoint(tf, inPts[i])]

TransformPoints(tf) == [i \in 1..N |-> Lift(TransformedInput(tf)[i])]

\* this->Offset, set by the constructor
Offset == 1

\* BoundingRadius2 = 4 * radius * radius with radius = Offset * Length
BoundingRadius2 == R(4 * Offset * Offset * Length2)

\* the integer square root of a square
Root(n) == CHOOSE r \in 0..n : r * r = n

IsSquare(n) == \E r \in 0..n : r * r = n

\* radius = Offset * Length and radius / sqrt(2), as numbers: Length2 is a
\* square or twice a square
Radius ==
  IF IsSquare(Length2) THEN <<Offset * Root(Length2), 0>>
  ELSE <<0, Offset * Root(Length2 \div 2)>>

RadiusDiag ==
  IF IsSquare(Length2) THEN <<0, (Offset * Root(Length2)) \div 2>>
  ELSE <<Offset * Root(Length2 \div 2), 0>>

\* radius * cos(k * 45 degrees)
RingCos(k) ==
  CASE k % 8 = 0 -> Radius
    [] k % 8 \in {1, 7} -> RadiusDiag
    [] k % 8 \in {2, 6} -> R(0)
    [] k % 8 \in {3, 5} -> Minus(R(0), RadiusDiag)
    [] OTHER -> Minus(R(0), Radius)

\* sin(a) = cos(a - 90 degrees); ps are the points the bounds are taken of
RingPoint(ps, k) == <<Plus(R(BoundsCenter(ps)[1]), RingCos(k)),
                      Plus(R(BoundsCenter(ps)[2]), RingCos(k + 6))>>

\* this->GetPoint(id)
GetPoint(id) == points[id + 1]

PointIds == 0..(N + 7)

\* tol = Length * Tolerance, squared; Tolerance = 0.00001
Tol2 == R((Length2 \div 100000) \div 100000)

-----------------------------------------------------------------------------
(* The mesh: vtkPolyData cells and links.                                  *)

GetCellPoints(cs, t) == cs[t + 1]

GetNumberOfCells(cs) == Len(cs)

CellHas(cs, t, v) == \E k \in 1..3 : cs[t + 1][k] = v

\* the cells using both p1 and p2, cellId excluded, in the order of p1's list
GetCellEdgeNeighbors(lk, cellId, p1, p2) ==
  SelectSeq(lk[p1], LAMBDA c : c # cellId /\ c \in SeqToSet(lk[p2]))

IsEdge(cs, lk, p1, p2) ==
  \E i \in 1..Len(lk[p1]) : CellHas(cs, lk[p1][i], p2)

\* the first occurrence of t is taken out; the rest keep their order
RemoveFirst(s, t) ==
  IF \E i \in 1..Len(s) : s[i] = t
  THEN LET i == CHOOSE j \in 1..Len(s) : s[j] = t /\ \A k \in 1..(j - 1) : s[k] # t
       IN  SubSeq(s, 1, i - 1) \o SubSeq(s, i + 1, Len(s))
  ELSE s

RemoveReferenceToCell(lk, v, t) == [lk EXCEPT ![v] = RemoveFirst(@, t)]

AddReferenceToCell(lk, v, t) == [lk EXCEPT ![v] = Append(@, t)]

ReplaceCell(cs, t, tr) == [cs EXCEPT ![t + 1] = tr]
\* InsertNextLinkedCell adding the cell twice
InsertNextLinkedCellCellsTwice(cs, tr) == Append(Append(cs, tr), tr)


\* InsertNextLinkedCell: the new cell's id is the old number of cells
InsertNextLinkedCellCells(cs, tr) == Append(cs, tr)

InsertNextLinkedCellLinks(cs, lk, tr) ==
  AddReferenceToCell(AddReferenceToCell(AddReferenceToCell(lk, tr[1], Len(cs)),
                                        tr[2], Len(cs)), tr[3], Len(cs))

\* RemoveCellReference: every point of the cell drops it
RemoveCellReference(cs, lk, t) ==
  RemoveReferenceToCell(RemoveReferenceToCell(RemoveReferenceToCell(
    lk, cs[t + 1][1], t), cs[t + 1][2], t), cs[t + 1][3], t)

\* ReplaceLinkedCell: the cell is rewritten and its points take it up
ReplaceLinkedCellLinks(lk, t, tr) ==
  AddReferenceToCell(AddReferenceToCell(AddReferenceToCell(lk, tr[1], t),
                                        tr[2], t), tr[3], t)


-----------------------------------------------------------------------------
(* vtkTriangle::Circumcircle and vtkDelaunay2D::InCircle.                  *)

\* 2 * D * (centre - x1) is CircumU / D with D = CircumD: the circumcentre of
\* (x1, x2, x3) is x1 + CircumU / CircumD, its radius squared is
\* Norm2(CircumU) / CircumD^2; CircumD = 0 is the singular system, for which
\* Circumcircle returns VTK_DOUBLE_MAX.
CircumD(x1, x2, x3) == Times(R(2), Cross2D(Sub(x2, x1), Sub(x3, x1)))

CircumU(x1, x2, x3) ==
  LET a == Sub(x2, x1)
      b == Sub(x3, x1)
  IN  <<Minus(Times(b[2], Norm2(a)), Times(a[2], Norm2(b))),
        Minus(Times(a[1], Norm2(b)), Times(b[1], Norm2(a)))>>

\* radius2 > this->BoundingRadius2
HugeCircle(x1, x2, x3) ==
  \/ Sgn(CircumD(x1, x2, x3)) = 0
  \/ Less(Times(BoundingRadius2, Times(CircumD(x1, x2, x3), CircumD(x1, x2, x3))),
          Norm2(CircumU(x1, x2, x3)))

\* a circle test that no point passes
InsideNever(x, x1, x2, x3) == FALSE

\* dist2 < 0.999999999999 * radius2, both times CircumD^2
StrictlyInside(x, x1, x2, x3) ==
  LET d  == CircumD(x1, x2, x3)
      u  == CircumU(x1, x2, x3)
      xx == Sub(x, x1)
      a  == Norm2(<<Minus(Times(d, xx[1]), u[1]), Minus(Times(d, xx[2]), u[2])>>)
      b  == Norm2(u)
  IN  Less(a, b)

\* a circle test that a point on the circle passes too
InCircleClosed(x, x1, x2, x3) ==
  LET d  == CircumD(x1, x2, x3)
      u  == CircumU(x1, x2, x3)
      xx == Sub(x, x1)
      a  == Norm2(<<Minus(Times(d, xx[1]), u[1]), Minus(Times(d, xx[2]), u[2])>>)
  IN  HugeCircle(x1, x2, x3) \/ ~Less(Norm2(u), a)

InCircle(x, x1, x2, x3) == HugeCircle(x1, x2, x3) \/ StrictlyInside(x, x1, x2, x3)

-----------------------------------------------------------------------------
(* vtkDelaunay2D::FindTriangle.                                            *)

\* One edge test of the walk: edge i of the triangle with corner points p.
\* dp = c / sqrt(m): c is n.vx with the sign of n.vp, before normalising.
EdgeEval(p, x, i) ==
  LET a  == p[i + 1]
      b  == p[((i + 1) % 3) + 1]
      o  == p[((i + 2) % 3) + 1]
      e  == Sub(b, a)
      sg == IF Sgn(Cross2D(e, Sub(o, a))) < 0 THEN -1 ELSE 1
  IN  [c |-> Times(R(sg), Cross2D(e, Sub(x, a))), m |-> Times(Norm2(e), Norm2(Sub(x, a)))]

\* a loop that stops after two of the three edges
RECURSIVE ScanTwoEdges(_, _, _, _, _, _)
ScanTwoEdges(p, ptIds, x, ir, ic, acc) ==
  IF ic = 2 THEN acc
  ELSE LET i  == (ir + ic) % 3
           ev == EdgeEval(p, x, i)
           lower == /\ Sgn(ev.c) <= 0
                    /\ \/ acc.inside
                       \/ Less(Times(Times(acc.c, acc.c), ev.m),
                               Times(Times(ev.c, ev.c), acc.m))
       IN  ScanTwoEdges(p, ptIds, x, ir, ic + 1,
                     IF lower
                     THEN [inside |-> FALSE, n1 |-> ptIds[i + 1],
                           n2 |-> ptIds[((i + 1) % 3) + 1], c |-> ev.c, m |-> ev.m]
                     ELSE acc)

\* the loop over the three edges, started at edge ir
RECURSIVE ScanEdges(_, _, _, _, _, _)
ScanEdges(p, ptIds, x, ir, ic, acc) ==
  IF ic = 3 THEN acc
  ELSE LET i  == (ir + ic) % 3
           ev == EdgeEval(p, x, i)
           lower == /\ Sgn(ev.c) <= 0
                    /\ \/ acc.inside
                       \/ Less(Times(Times(acc.c, acc.c), ev.m),
                               Times(Times(ev.c, ev.c), acc.m))
       IN  ScanEdges(p, ptIds, x, ir, ic + 1,
                     IF lower
                     THEN [inside |-> FALSE, n1 |-> ptIds[i + 1],
                           n2 |-> ptIds[((i + 1) % 3) + 1], c |-> ev.c, m |-> ev.m]
                     ELSE acc)

\* a walk that never leaves the triangle it starts in
RECURSIVE FindTriangleStaying(_, _, _, _, _, _)
FindTriangleStaying(cs, lk, x, tri, nei, fuel) ==
  LET ptIds == GetCellPoints(cs, tri)
      p     == [k \in 1..3 |-> GetPoint(ptIds[k])]
      sc    == ScanEdges(p, ptIds, x, 0, 0,
                         [inside |-> TRUE, n1 |-> nei[2], n2 |-> nei[3],
                          c |-> R(0), m |-> R(1)])
  IN  IF sc.inside \/ Sgn(sc.c) = 0
      THEN {[kind |-> "in", tri |-> tri, ptIds |-> ptIds, left |-> fuel,
             nei |-> <<-1, nei[2], nei[3]>>]}
      ELSE IF fuel = 0
      THEN {[kind |-> "walk", tri |-> -1, ptIds |-> ptIds, left |-> fuel,
             nei |-> <<tri, sc.n1, sc.n2>>]}
      ELSE FindTriangleStaying(cs, lk, x, tri, <<tri, sc.n1, sc.n2>>, fuel - 1)

\* The outcomes of FindTriangle(x, ptIds, tri, tol, nei, neighbors), one per
\* value of rand() % 3 that tells them apart.  kind: "in" (interior hit),
\* "edge" (edge hit), "dup", "degen", "nonei" (edge hit on an edge without a
\* neighbour: GetId(0) of an empty list), "walk" (MaxWalk exhausted); left
\* is what is left of MaxWalk when the recursion returns.
RECURSIVE FindTriangle(_, _, _, _, _, _)
FindTriangle(cs, lk, x, tri, nei, fuel) ==
  LET ptIds == GetCellPoints(cs, tri)
      p     == [k \in 1..3 |-> GetPoint(ptIds[k])]
      Scan(ir) == ScanEdges(p, ptIds, x, ir, 0,
                            [inside |-> TRUE, n1 |-> nei[2], n2 |-> nei[3],
                             c |-> R(0), m |-> R(1)])
      After(sc) ==
        LET nb == GetCellEdgeNeighbors(lk, tri, sc.n1, sc.n2)
        IN  IF sc.inside
            THEN {[kind |-> "in", tri |-> tri, ptIds |-> ptIds, left |-> fuel,
                   nei |-> <<-1, nei[2], nei[3]>>]}
            ELSE IF Sgn(sc.c) = 0
            THEN IF Len(nb) = 0
                 THEN {[kind |-> "nonei", tri |-> tri, ptIds |-> ptIds, left |-> fuel,
                        nei |-> <<-1, sc.n1, sc.n2>>]}
                 ELSE {[kind |-> "edge", tri |-> tri, ptIds |-> ptIds, left |-> fuel,
                        nei |-> <<nb[1], sc.n1, sc.n2>>]}
            ELSE IF Len(nb) = 0 \/ nb[1] = nei[1]
            THEN {[kind |-> "degen", tri |-> -1, ptIds |-> ptIds, left |-> fuel,
                   nei |-> <<nei[1], sc.n1, sc.n2>>]}
            ELSE IF fuel = 0
            THEN {[kind |-> "walk", tri |-> -1, ptIds |-> ptIds, left |-> fuel,
                   nei |-> <<tri, sc.n1, sc.n2>>]}
            ELSE FindTriangle(cs, lk, x, nb[1], <<tri, sc.n1, sc.n2>>, fuel - 1)
  IN  IF \E k \in 1..3 : ~Less(Tol2, Norm2(Sub(x, p[k])))
      THEN {[kind |-> "dup", tri |-> -1, ptIds |-> ptIds, left |-> fuel, nei |-> nei]}
      ELSE UNION {After(sc) : sc \in {Scan(ir) : ir \in 0..2}}

-----------------------------------------------------------------------------
(* Inputs and options of a run.                                            *)

Coords == {0, 1, 2}

Grid == Coords \X Coords

\* p before q in the order the inputs are enumerated in
Before(p, q) == p[1] < q[1] \/ (p[1] = q[1] /\ p[2] < q[2])

\* distinct grid points, n of them, in the order Before
Sorted(n) == {s \in [1..n -> Grid] : \A i \in 1..(n - 1) : Before(s[i], s[i + 1])}

\* the bounding box of s is a square or a segment of side 2
Boxed(s) ==
  LET w == SetMax({s[i][1] : i \in DOMAIN s}) - SetMin({s[i][1] : i \in DOMAIN s})
      h == SetMax({s[i][2] : i \in DOMAIN s}) - SetMin({s[i][2] : i \in DOMAIN s})
  IN  <<w, h>> \in {<<2, 2>>, <<2, 0>>, <<0, 2>>}

\* the point sequences a run may be given: too few points to triangulate,
\* one triangle's worth, or NumPts points
Inputs == Sorted(0) \cup Sorted(1)
          \cup {s \in Sorted(2) \cup Sorted(3) \cup Sorted(NumPts) : Boxed(s)}

\* the option settings a run may be given: besides BoundingTriangulation, at
\* most one option departs from the constructor's default
Options ==
  {o \in [bt : BOOLEAN, alpha2 : {0, AlphaSq}, random : BOOLEAN,
          transform : {"none", "user"}, mode : {"xy", "bestfit"}, abort : BOOLEAN] :
     (IF o.alpha2 # 0 THEN 1 ELSE 0) + (IF o.random THEN 1 ELSE 0)
       + (IF o.transform # "none" THEN 1 ELSE 0) + (IF o.mode # "xy" THEN 1 ELSE 0)
       + (IF o.abort THEN 1 ELSE 0) <= 1}

NoWork == [stage |-> "none"]

NoOut == [returned |-> -1, numPoints |-> 0, polys |-> <<>>, lines |-> <<>>,
          verts |-> <<>>]

\* no run of the filter has returned yet
NoPrior == [kind |-> "none"]

InitRun ==
  /\ points = <<>>
  /\ pc = "start"
  /\ cells = <<>>
  /\ links = <<>>
  /\ idx = 0
  /\ tri0 = 0
  /\ stack = <<>>
  /\ NumberOfDuplicatePoints = 0
  /\ NumberOfDegeneracies = 0
  /\ triUse = <<>>
  /\ work = NoWork
  /\ warnings = {}
  /\ out = NoOut
  /\ prior = NoPrior

Init ==
  /\ inPts \in Inputs
  /\ \E o \in Options :
       /\ BoundingTriangulation = o.bt
       /\ Alpha2 = o.alpha2
       /\ RandomPointInsertion = o.random
       /\ Transform = o.transform
       /\ ProjectionPlaneMode = o.mode
       /\ AbortExecute = o.abort
  /\ hasSource = FALSE
  /\ srcLines = <<>>
  /\ srcPolys = <<>>
  /\ InitRun

-----------------------------------------------------------------------------
(* RequestData, up to the seed triangles.                                  *)

\* the six seed triangles over the ring points numPoints .. numPoints + 7
SeedTriangles(n) ==
  << <<n, n + 1, n + 2>>, <<n + 2, n + 3, n + 4>>, <<n + 4, n + 5, n + 6>>,
     <<n + 6, n + 7, n>>, <<n, n + 2, n + 6>>, <<n + 2, n + 4, n + 6>> >>

\* Mesh->BuildLinks(): every point lists its cells in increasing cell id
BuildLinks(cs, ids) ==
  [v \in ids |-> SelectSeq([t \in 1..Len(cs) |-> t - 1],
                           LAMBDA t : CellHas(cs, t, v))]

RingWarnings ==
  (IF Transform # "none" /\ BoundingTriangulation THEN {"ring-transform"} ELSE {})
  \cup (IF ProjectionPlaneMode = "bestfit" /\ BoundingTriangulation
        THEN {"ring-bestfit"} ELSE {})

\* a check that lets two points through
OnePointOrNone == N <= 1

\* numPoints <= 2: "Cannot triangulate; need at least 3 input points"
TooFewPoints == N <= 2

Bootstrap ==
  /\ pc = "start"
  /\ warnings' = warnings \cup RingWarnings
  /\ IF TooFewPoints
     THEN /\ pc' = "done"
          /\ out' = [out EXCEPT !.returned = 1]
          /\ UNCHANGED <<points, cells, links, Transform, NumberOfDuplicatePoints,
                         NumberOfDegeneracies>>
     ELSE /\ pc' = "locate"
          /\ NumberOfDuplicatePoints' = 0
          /\ NumberOfDegeneracies' = 0
          /\ Transform' = EffectiveTransform
          /\ points' = TransformPoints(EffectiveTransform)
                        \o [k \in 1..8 |-> RingPoint(TransformedInput(EffectiveTransform), k - 1)]
          /\ cells' = SeedTriangles(N)
          /\ links' = BuildLinks(SeedTriangles(N), PointIds)
          /\ UNCHANGED out
  /\ UNCHANGED <<config, srcLines, srcPolys, idx, tri0, stack, triUse, work>>

-----------------------------------------------------------------------------
(* GCDTraversal.                                                           *)

RECURSIVE ComputeGCD(_, _)
ComputeGCD(m, n) == IF n = 0 THEN m ELSE ComputeGCD(n, m % n)

RECURSIVE FindPrime(_, _)
FindPrime(p, npts) == IF ComputeGCD(p, npts) # 1 THEN FindPrime(p + 1, npts) ELSE p

GCDOffset(npts) == npts \div 2

\* the constructor without its while loop
GCDPrimeUnsearched(npts) == GCDOffset(npts) + 1

GCDPrime(npts) == FindPrime(GCDOffset(npts) + 1, npts)

GCDGetPointId(npts, i) == (GCDPrime(npts) * i + GCDOffset(npts)) % npts

-----------------------------------------------------------------------------
(* The insertion loop.                                                     *)

\* the points taken last to first
CurPtIdReversed == N - 1 - idx

CurPtId == IF RandomPointInsertion THEN GCDGetPointId(N, idx) ELSE idx

\* the vertex of triangle tr that is neither a nor b (the last such one)
OppositeLast(tr, a, b) ==
  LET ks == {k \in 1..3 : tr[k] # a /\ tr[k] # b}
  IN  IF ks = {} THEN 0 ELSE tr[SetMax(ks)]

Call(p1, p2, t, depth) == [p1 |-> p1, p2 |-> p2, tri |-> t, depth |-> depth]

\* an interior hit: the found triangle is split in three
SplitTriangle(r, ptId) ==
  LET t   == r.tri
      pts == r.ptIds
      n0  == <<ptId, pts[1], pts[2]>>
      n1  == <<ptId, pts[2], pts[3]>>
      n2  == <<ptId, pts[3], pts[1]>>
      lk1 == AddReferenceToCell(RemoveReferenceToCell(links, pts[3], t), ptId, t)
      cs1 == ReplaceCell(cells, t, n0)
      t1  == Len(cs1)
      lk2 == InsertNextLinkedCellLinks(cs1, lk1, n1)
      cs2 == InsertNextLinkedCellCells(cs1, n1)
      t2  == Len(cs2)
      lk3 == InsertNextLinkedCellLinks(cs2, lk2, n2)
      cs3 == InsertNextLinkedCellCells(cs2, n2)
  IN  [cells |-> cs3, links |-> lk3,
       stack |-> << Call(pts[1], pts[2], t, 1), Call(pts[2], pts[3], t1, 1),
                    Call(pts[3], pts[1], t2, 1) >>]

\* an edge hit: the found triangle and its neighbour are split in four
SplitEdge(r, ptId) ==
  LET t    == r.tri
      pts  == r.ptIds
      nei  == r.nei
      p1   == OppositeLast(GetCellPoints(cells, nei[1]), nei[2], nei[3])
      p2   == OppositeLast(pts, nei[2], nei[3])
      lk1  == RemoveReferenceToCell(RemoveReferenceToCell(links, nei[3], t),
                                    nei[3], nei[1])
      n0   == <<ptId, p2, nei[2]>>
      n1   == <<ptId, p1, nei[2]>>
      cs1  == ReplaceCell(ReplaceCell(cells, t, n0), nei[1], n1)
      lk2  == AddReferenceToCell(AddReferenceToCell(lk1, ptId, t), ptId, nei[1])
      n2   == <<ptId, p2, nei[3]>>
      n3   == <<ptId, p1, nei[3]>>
      t2   == Len(cs1)
      lk3  == InsertNextLinkedCellLinks(cs1, lk2, n2)
      cs2  == InsertNextLinkedCellCells(cs1, n2)
      t3   == Len(cs2)
      lk4  == InsertNextLinkedCellLinks(cs2, lk3, n3)
      cs3  == InsertNextLinkedCellCells(cs2, n3)
  IN  [cells |-> cs3, links |-> lk4,
       stack |-> << Call(n0[2], n0[3], t, 1), Call(n1[2], n1[3], nei[1], 1),
                    Call(n2[2], n2[3], t2, 1), Call(n3[2], n3[3], t3, 1) >>]
\* Locate with a location failure counted as a duplicate and as a degeneracy
LocateCountingTwice ==
  /\ pc = "locate"
  /\ idx < N
  /\ \E r \in FindTriangle(cells, links, GetPoint(CurPtId), tri0, <<-1, -1, -1>>, MaxWalk) :
       /\ work' = [stage |-> "insert", ptId |-> CurPtId, found |-> r.kind,
                   tri |-> r.tri, ptIds |-> r.ptIds, nei |-> r.nei,
                   visited |-> MaxWalk - r.left + 1]
       /\ IF r.kind = "in"
          THEN /\ cells' = SplitTriangle(r, CurPtId).cells
               /\ links' = SplitTriangle(r, CurPtId).links
               /\ stack' = SplitTriangle(r, CurPtId).stack
               /\ tri0' = r.tri
               /\ pc' = "flip"
               /\ UNCHANGED <<NumberOfDuplicatePoints, NumberOfDegeneracies>>
          ELSE IF r.kind = "edge"
          THEN /\ cells' = SplitEdge(r, CurPtId).cells
               /\ links' = SplitEdge(r, CurPtId).links
               /\ stack' = SplitEdge(r, CurPtId).stack
               /\ tri0' = r.tri
               /\ pc' = "flip"
               /\ UNCHANGED <<NumberOfDuplicatePoints, NumberOfDegeneracies>>
          ELSE /\ UNCHANGED <<cells, links, stack>>
               /\ tri0' = 0
               /\ pc' = IF r.kind \in {"dup", "degen"} THEN "flip" ELSE r.kind
               /\ NumberOfDuplicatePoints' = NumberOfDuplicatePoints + 1
               /\ NumberOfDegeneracies' = NumberOfDegeneracies + 1
  /\ UNCHANGED <<config, srcLines, srcPolys, points, Transform, idx, triUse, warnings, out>>


\* one pass of the loop body up to the CheckEdge calls: locate and split
Locate ==
  /\ pc = "locate"
  /\ idx < N
  /\ \E r \in FindTriangle(cells, links, GetPoint(CurPtId), tri0, <<-1, -1, -1>>, MaxWalk) :
       /\ work' = [stage |-> "insert", ptId |-> CurPtId, found |-> r.kind,
                   tri |-> r.tri, ptIds |-> r.ptIds, nei |-> r.nei,
                   visited |-> MaxWalk - r.left + 1]
       /\ IF r.kind = "in"
          THEN /\ cells' = SplitTriangle(r, CurPtId).cells
               /\ links' = SplitTriangle(r, CurPtId).links
               /\ stack' = SplitTriangle(r, CurPtId).stack
               /\ tri0' = r.tri
               /\ pc' = "flip"
               /\ UNCHANGED <<NumberOfDuplicatePoints, NumberOfDegeneracies>>
          ELSE IF r.kind = "edge"
          THEN /\ cells' = SplitEdge(r, CurPtId).cells
               /\ links' = SplitEdge(r, CurPtId).links
               /\ stack' = SplitEdge(r, CurPtId).stack
               /\ tri0' = r.tri
               /\ pc' = "flip"
               /\ UNCHANGED <<NumberOfDuplicatePoints, NumberOfDegeneracies>>
          ELSE /\ UNCHANGED <<cells, links, stack>>
               /\ tri0' = 0
               /\ pc' = IF r.kind \in {"dup", "degen"} THEN "flip" ELSE r.kind
               /\ NumberOfDuplicatePoints' =
                    NumberOfDuplicatePoints + (IF r.kind = "dup" THEN 1 ELSE 0)
               /\ NumberOfDegeneracies' =
                    NumberOfDegeneracies + (IF r.kind = "degen" THEN 1 ELSE 0)
  /\ UNCHANGED <<config, srcLines, srcPolys, points, Transform, idx, triUse, warnings, out>>

\* This constant is used to limit recursion so as to avoid segfaults.
MAX_RECURSION_DEPTH == 2500

\* the vertex CheckEdge takes as opposite to (p1, p2) in the neighbour
OppositeFirst(tr, p1, p2) ==
  IF tr[1] # p1 /\ tr[1] # p2 THEN tr[1]
  ELSE IF tr[2] # p1 /\ tr[2] # p2 THEN tr[2] ELSE tr[3]

\* the diagonal swap of CheckEdge: (p1, p2) shared by tri and nei becomes (ptId, p3)
\* the swap that takes the two references away and adds none
SwapLinksRemoveOnly(lk, ptId, p1, p2, p3, t, nei) ==
  RemoveReferenceToCell(RemoveReferenceToCell(lk, p1, t), p2, nei)

SwapLinks(lk, ptId, p1, p2, p3, t, nei) ==
  AddReferenceToCell(AddReferenceToCell(
    RemoveReferenceToCell(RemoveReferenceToCell(lk, p1, t), p2, nei),
    ptId, nei), p3, t)

\* the swap that rewrites only the first of the two triangles
SwapCellsFirstOnly(cs, ptId, p1, p2, p3, t, nei) ==
  ReplaceCell(cs, t, <<ptId, p3, p2>>)

SwapCells(cs, ptId, p1, p2, p3, t, nei) ==
  ReplaceCell(ReplaceCell(cs, t, <<ptId, p3, p2>>), nei, <<ptId, p1, p3>>)
\* CheckEdge without the test of depth against MAX_RECURSION_DEPTH
CheckEdgeUnbounded(cs, lk, ptId, p1, p2, t, recursive, depth) ==
  LET nb  == GetCellEdgeNeighbors(lk, t, p1, p2)
      nei == nb[1]
      p3  == OppositeFirst(GetCellPoints(cs, nei), p1, p2)
  IN  IF Len(nb) > 0
         /\ InCircle(GetPoint(p3), GetPoint(ptId), GetPoint(p1), GetPoint(p2))
      THEN [cells |-> SwapCells(cs, ptId, p1, p2, p3, t, nei),
            links |-> SwapLinks(lk, ptId, p1, p2, p3, t, nei),
            flipped |-> TRUE,
            calls |-> IF recursive
                      THEN << Call(p3, p2, t, depth + 1), Call(p1, p3, nei, depth + 2) >>
                      ELSE <<>>,
            warned |-> FALSE]
      ELSE [cells |-> cs, links |-> lk, flipped |-> FALSE, calls |-> <<>>,
            warned |-> FALSE]


\* CheckEdge(ptId, x, p1, p2, tri, recursive, depth) up to its recursive calls:
\* what it leaves of the mesh, whether it flipped, and the calls it makes next
CheckEdge(cs, lk, ptId, p1, p2, t, recursive, depth) ==
  LET nb  == GetCellEdgeNeighbors(lk, t, p1, p2)
      nei == nb[1]
      p3  == OppositeFirst(GetCellPoints(cs, nei), p1, p2)
  IN  IF depth >= MAX_RECURSION_DEPTH
      THEN [cells |-> cs, links |-> lk, flipped |-> FALSE, calls |-> <<>>,
            warned |-> TRUE]
      ELSE IF Len(nb) > 0
              /\ InCircle(GetPoint(p3), GetPoint(ptId), GetPoint(p1), GetPoint(p2))
      THEN [cells |-> SwapCells(cs, ptId, p1, p2, p3, t, nei),
            links |-> SwapLinks(lk, ptId, p1, p2, p3, t, nei),
            flipped |-> TRUE,
            calls |-> IF recursive
                      THEN << Call(p3, p2, t, depth + 1), Call(p1, p3, nei, depth + 2) >>
                      ELSE <<>>,
            warned |-> FALSE]
      ELSE [cells |-> cs, links |-> lk, flipped |-> FALSE, calls |-> <<>>,
            warned |-> FALSE]

\* the next pending CheckEdge call of the insertion in progress
CheckEdgeStep ==
  /\ pc = "flip"
  /\ stack # <<>>
  /\ LET c == Head(stack)
         r == CheckEdge(cells, links, work.ptId, c.p1, c.p2, c.tri, TRUE, c.depth)
     IN  /\ cells' = r.cells
         /\ links' = r.links
         /\ stack' = r.calls \o Tail(stack)
         /\ warnings' = warnings \cup (IF r.warned THEN {"recursion"} ELSE {})
  /\ UNCHANGED <<config, srcLines, srcPolys, points, Transform, pc, idx, tri0, NumberOfDuplicatePoints,
                 NumberOfDegeneracies, triUse, work, out>>

\* if (!(ptId % 1000))
PollEvery == 1000

\* the end of the loop body: progress, the abort poll, the next point
Poll ==
  /\ pc = "flip"
  /\ stack = <<>>
  /\ IF work.ptId % PollEvery = 0 /\ AbortExecute
     THEN /\ pc' = "finish"
          /\ idx' = idx
     ELSE /\ pc' = IF idx + 1 < N THEN "locate" ELSE "finish"
          /\ idx' = idx + 1
  /\ work' = NoWork
  /\ UNCHANGED <<config, srcLines, srcPolys, points, Transform, cells, links, tri0, stack,
                 NumberOfDuplicatePoints, NumberOfDegeneracies, triUse, warnings, out>>

-----------------------------------------------------------------------------
(* The constraint source and vtkDelaunay2D::RecoverEdge.                   *)

RECURSIVE Concat(_)
Concat(ss) == IF ss = <<>> THEN <<>> ELSE Head(ss) \o Concat(Tail(ss))

\* the edges of a polyline, and of a polygon (closed)
LineEdges(l) == [i \in 1..(Len(l) - 1) |-> <<l[i], l[i + 1]>>]

PolyEdges(p) == [i \in 1..Len(p) |-> <<p[i], p[(i % Len(p)) + 1]>>]

\* the edges RecoverBoundary visits, in its order: polylines, then polygons
ConstraintEdges(ls, ps) ==
  Concat([i \in 1..Len(ls) |-> LineEdges(ls[i])])
  \o Concat([i \in 1..Len(ps) |-> PolyEdges(ps[i])])

\* source->IsEdge(a, b): (a, b) is a constraint edge
SourceIsEdge(ls, ps, a, b) ==
  \E k \in 1..Len(ConstraintEdges(ls, ps)) :
     {ConstraintEdges(ls, ps)[k][1], ConstraintEdges(ls, ps)[k][2]} = {a, b}

\* vtkPlane::Evaluate(n, o, x) > 0.0 for n = Cross(d, xyNormal)
RightOf(d, o, x) == Sgn(Dot2D(<<d[2], Minus(R(0), d[1])>>, Sub(x, o))) > 0

\* the position (0..2) of v in triangle tr, 3 when the loop runs out
PosOf(tr, v) ==
  IF tr[1] = v THEN 0 ELSE IF tr[2] = v THEN 1 ELSE IF tr[3] = v THEN 2 ELSE 3

NoStart == [found |-> FALSE, cell |-> 0, v1 |-> 0, v2 |-> 0, signX1 |-> FALSE]

\* the first cell of p1 whose other two points lie on either side of (p1, p2)
\* and whose edge between them separates p1 from p2
RECURSIVE FindStart(_, _, _, _, _)
FindStart(cs, lk, p1, p2, i) ==
  IF i > Len(lk[p1]) THEN NoStart
  ELSE LET c   == lk[p1][i]
           tr  == GetCellPoints(cs, c)
           j   == PosOf(tr, p1)
           v1  == tr[((j + 1) % 3) + 1]
           v2  == tr[((j + 2) % 3) + 1]
           p21 == Sub(GetPoint(p2), GetPoint(p1))
           sx1 == RightOf(p21, GetPoint(p1), GetPoint(v1))
           sx2 == RightOf(p21, GetPoint(p1), GetPoint(v2))
           v21 == Sub(GetPoint(v2), GetPoint(v1))
       IN  IF sx1 = sx2 THEN FindStart(cs, lk, p1, p2, i + 1)
           ELSE IF v21 = <<R(0), R(0)>> THEN NoStart
           ELSE IF RightOf(v21, GetPoint(v1), GetPoint(p1))
                   # RightOf(v21, GetPoint(v1), GetPoint(p2))
           THEN [found |-> TRUE, cell |-> c, v1 |-> v1, v2 |-> v2, signX1 |-> sx1]
           ELSE FindStart(cs, lk, p1, p2, i + 1)

\* the walk along edge neighbours towards p2: the triangles met and the two
\* chains; ok is FALSE when an edge has not exactly one neighbour
RECURSIVE ChainWalk(_, _, _, _, _, _, _, _, _, _, _)
ChainWalk(cs, lk, p1, p2, cellId, v1, v2, tris, left, right, fuel) ==
  IF v1 = p2 THEN [ok |-> TRUE, why |-> "", tris |-> tris, left |-> left, right |-> right]
  ELSE IF fuel = 0
  THEN [ok |-> FALSE, why |-> "endless", tris |-> tris, left |-> left, right |-> right]
  ELSE LET nb == GetCellEdgeNeighbors(lk, cellId, v1, v2)
       IN  IF Len(nb) # 1
           THEN [ok |-> FALSE, why |-> "neighbors", tris |-> tris, left |-> left,
                 right |-> right]
           ELSE LET c   == nb[1]
                    opp == OppositeFirst(GetCellPoints(cs, c), v1, v2)
                IN  IF opp = p2
                    THEN ChainWalk(cs, lk, p1, p2, c, p2, v2, Append(tris, c),
                                   Append(left, p2), Append(right, p2), fuel - 1)
                    ELSE IF RightOf(Sub(GetPoint(p2), GetPoint(p1)), GetPoint(p1),
                                    GetPoint(opp))
                    THEN ChainWalk(cs, lk, p1, p2, c, opp, v2, Append(tris, c),
                                   left, Append(right, opp), fuel - 1)
                    ELSE ChainWalk(cs, lk, p1, p2, c, v1, opp, Append(tris, c),
                                   Append(left, opp), right, fuel - 1)

\* the set of polygon edges of a chain, closing edge included
ChainEdges(ch) == {{ch[i], ch[(i % Len(ch)) + 1]} : i \in 1..Len(ch)}

-----------------------------------------------------------------------------
(* vtkPolygon::BoundedTriangulate: ear clipping restricted to the polygon. *)

\* twice the signed area of the polygon ring (a sequence of point ids)
RECURSIVE RingArea2(_, _)
RingArea2(ring, i) ==
  IF i > Len(ring) THEN R(0)
  ELSE Plus(Cross2D(GetPoint(ring[i]), GetPoint(ring[(i % Len(ring)) + 1])),
            RingArea2(ring, i + 1))

\* x in the closed triangle (a, b, c) of orientation s
InClosedTriangle(x, a, b, c, s) ==
  /\ s * Sgn(Cross2D(Sub(b, a), Sub(x, a))) >= 0
  /\ s * Sgn(Cross2D(Sub(c, b), Sub(x, b))) >= 0
  /\ s * Sgn(Cross2D(Sub(a, c), Sub(x, c))) >= 0

RingPrev(ring, i) == ring[((i + Len(ring) - 2) % Len(ring)) + 1]

RingNext(ring, i) == ring[(i % Len(ring)) + 1]

\* vertex i of the ring is an ear: convex, and no other vertex in its triangle
IsEar(ring, i, s) ==
  LET a == GetPoint(RingPrev(ring, i))
      b == GetPoint(ring[i])
      c == GetPoint(RingNext(ring, i))
  IN  /\ s * Sgn(Cross2D(Sub(b, a), Sub(c, b))) > 0
      /\ \A k \in 1..Len(ring) :
            ring[k] \notin {RingPrev(ring, i), ring[i], RingNext(ring, i)}
            => ~InClosedTriangle(GetPoint(ring[k]), a, b, c, s)

CutEar(ring, i) == SubSeq(ring, 1, i - 1) \o SubSeq(ring, i + 1, Len(ring))

Refused == [ok |-> FALSE, tris |-> <<>>]

\* every triangle list ear clipping can produce, ears cut in any order; a
\* ring without an ear is refused
RECURSIVE EarCut(_, _)
EarCut(ring, s) ==
  IF Len(ring) < 3 THEN {Refused}
  ELSE IF Len(ring) = 3
  THEN IF IsEar(ring, 2, s)
       THEN {[ok |-> TRUE, tris |-> << <<ring[1], ring[2], ring[3]>> >>]}
       ELSE {Refused}
  ELSE IF \A i \in 1..Len(ring) : ~IsEar(ring, i, s) THEN {Refused}
  ELSE UNION {
         {IF r.ok
          THEN [ok |-> TRUE,
                tris |-> << <<RingPrev(ring, i), ring[i], RingNext(ring, i)>> >> \o r.tris]
          ELSE Refused : r \in EarCut(CutEar(ring, i), s)}
         : i \in {k \in 1..Len(ring) : IsEar(ring, k, s)}}

BoundedTriangulate(ring) ==
  IF Sgn(RingArea2(ring, 1)) = 0 THEN {Refused} ELSE EarCut(ring, Sgn(RingArea2(ring, 1)))

-----------------------------------------------------------------------------
(* RecoverEdge, from the chains to the end.                                *)

\* the replacement that writes every new triangle to the first traversed id
RECURSIVE ReplaceTrisFirstId(_, _, _, _, _)
ReplaceTrisFirstId(cs, lk, tris, new, j) ==
  IF j > Len(new) THEN [cells |-> cs, links |-> lk]
  ELSE ReplaceTrisFirstId(ReplaceCell(cs, tris[1], new[j]),
                          ReplaceLinkedCellLinks(RemoveCellReference(cs, lk, tris[1]),
                                                 tris[1], new[j]),
                          tris, new, j + 1)

\* the traversed triangles are rewritten in place, left triangles first
RECURSIVE ReplaceTris(_, _, _, _, _)
ReplaceTris(cs, lk, tris, new, j) ==
  IF j > Len(new) THEN [cells |-> cs, links |-> lk]
  ELSE ReplaceTris(ReplaceCell(cs, tris[j], new[j]),
                   ReplaceLinkedCellLinks(RemoveCellReference(cs, lk, tris[j]),
                                          tris[j], new[j]),
                   tris, new, j + 1)

\* newEdges with every edge of every new triangle
SuspectsAll(ls, ps, tris, new, polysEdges) ==
  Concat([j \in 1..Len(new) |->
    LET tr == new[j]
        Ep(e) == tr[(e % 3) + 1]
    IN  [e \in 1..3 |-> <<tris[j], Ep(e - 1), Ep(e), Ep(e + 1)>>]])

\* newEdges: <<cellId, ep1, ep2, ep3>> for every edge (ep1, ep2) of a new
\* triangle without constraint edge that is not an edge of a chain polygon
Suspects(ls, ps, tris, new, polysEdges) ==
  Concat([j \in 1..Len(new) |->
    LET tr == new[j]
        Ep(e) == tr[(e % 3) + 1]
        free == /\ ~SourceIsEdge(ls, ps, tr[1], tr[2])
                /\ ~SourceIsEdge(ls, ps, tr[2], tr[3])
                /\ ~SourceIsEdge(ls, ps, tr[3], tr[1])
    IN  SelectSeq([e \in 1..3 |-> <<tris[j], Ep(e - 1), Ep(e), Ep(e + 1)>>],
                  LAMBDA q : free /\ {q[2], q[3]} \notin polysEdges)])

\* the suspicious edges are checked, not recursively, up to the first flip
RECURSIVE CheckSuspects(_, _, _, _)
CheckSuspects(cs, lk, sus, k) ==
  IF k > Len(sus) THEN [cells |-> cs, links |-> lk, flipped |-> FALSE, checked |-> Len(sus)]
  ELSE LET r == CheckEdge(cs, lk, sus[k][4], sus[k][2], sus[k][3], sus[k][1], FALSE, 1)
       IN  IF r.flipped
           THEN [cells |-> r.cells, links |-> r.links, flipped |-> TRUE, checked |-> k]
           ELSE CheckSuspects(cs, lk, sus, k + 1)

\* the failure exit that has dropped the first cell of the mesh from the cell
\* lists of its points
FailureAfterEdit(cs, lk, why) ==
  [success |-> 0, why |-> why, cells |-> cs, links |-> RemoveCellReference(cs, lk, 0),
   tris |-> <<>>, new |-> <<>>, suspects |-> <<>>, checked |-> 0, flipped |-> FALSE]

\* FAILURE: nothing of the mesh has been edited
Failure(cs, lk, why) ==
  [success |-> 0, why |-> why, cells |-> cs, links |-> lk, tris |-> <<>>,
   new |-> <<>>, suspects |-> <<>>, checked |-> 0, flipped |-> FALSE]

\* RecoverEdge(source, p1, p2): every outcome the triangulator allows
RecoverEdge(cs, lk, ls, ps, p1, p2) ==
  IF GetPoint(p1) = GetPoint(p2) THEN {Failure(cs, lk, "coincident")}
  ELSE LET st == FindStart(cs, lk, p1, p2, 1)
       IN  IF ~st.found THEN {Failure(cs, lk, "start")}
           ELSE LET w == ChainWalk(cs, lk, p1, p2, st.cell, st.v1, st.v2, <<st.cell>>,
                           IF st.signX1 THEN <<p1, st.v2>> ELSE <<p1, st.v1>>,
                           IF st.signX1 THEN <<p1, st.v1>> ELSE <<p1, st.v2>>,
                           MaxWalk)
                IN  IF ~w.ok THEN {Failure(cs, lk, w.why)}
                    ELSE {IF ~(r.ok /\ l.ok) THEN Failure(cs, lk, "triangulate")
                          ELSE LET new == l.tris \o r.tris
                                   m   == ReplaceTris(cs, lk, w.tris, new, 1)
                                   sus == Suspects(ls, ps, w.tris, new,
                                            ChainEdges(w.right) \cup ChainEdges(w.left))
                                   chk == CheckSuspects(m.cells, m.links, sus, 1)
                               IN  [success |-> 1, why |-> "", cells |-> chk.cells,
                                    links |-> chk.links, tris |-> w.tris, new |-> new,
                                    suspects |-> sus, checked |-> chk.checked,
                                    flipped |-> chk.flipped]
                          : r \in BoundedTriangulate(w.right),
                            l \in BoundedTriangulate(w.left)}

-----------------------------------------------------------------------------
(* vtkDelaunay2D::FillPolygons.                                            *)

\* Mesh->GetCellEdgeNeighbors(-1, p1, p2): every cell on the edge
EdgeCells(lk, p1, p2) == SelectSeq(lk[p1], LAMBDA c : c \in SeqToSet(lk[p2]))

\* the marks one polygon edge leaves on the cells on it, and the front
RECURSIVE MarkCells(_, _, _, _, _, _)
MarkCells(cs, m, p1, p2, nb, j) ==
  IF j > Len(nb) THEN m
  ELSE LET c   == nb[j]
           x   == GetPoint(OppositeFirst(GetCellPoints(cs, c), p1, p2))
           out0 == RightOf(Sub(GetPoint(p2), GetPoint(p1)), GetPoint(p1), x)
       IN  MarkCells(cs,
                     [tu |-> [m.tu EXCEPT ![c + 1] = IF out0 THEN 0 ELSE 0 - 1],
                      front |-> IF out0 THEN m.front \cup {c} ELSE m.front],
                     p1, p2, nb, j + 1)

RECURSIVE MarkEdges(_, _, _, _, _)
MarkEdges(cs, lk, m, es, k) ==
  IF k > Len(es) THEN m
  ELSE MarkEdges(cs, lk,
                 MarkCells(cs, m, es[k][1], es[k][2],
                           EdgeCells(lk, es[k][1], es[k][2]), 1),
                 es, k + 1)

\* the edge neighbours of the cells of a front that are still marked 1
FrontNeighbors(cs, lk, tu, front) ==
  {n \in 0..(Len(cs) - 1) :
     /\ tu[n + 1] = 1
     /\ \E c \in front : \E k \in 1..3 :
          \E i \in 1..Len(GetCellEdgeNeighbors(lk, c, cs[c + 1][k], cs[c + 1][(k % 3) + 1])) :
             GetCellEdgeNeighbors(lk, c, cs[c + 1][k], cs[c + 1][(k % 3) + 1])[i] = n}

\* the fill that spreads over every cell not yet marked 0
RECURSIVE FloodThrough(_, _, _, _)
FloodThrough(cs, lk, tu, front) ==
  LET nx == {n \in 0..(Len(cs) - 1) :
               /\ tu[n + 1] # 0
               /\ \E c \in front : \E k \in 1..3 :
                    n \in SeqToSet(GetCellEdgeNeighbors(lk, c, cs[c + 1][k],
                                                        cs[c + 1][(k % 3) + 1]))}
  IN  IF nx = {} THEN tu
      ELSE FloodThrough(cs, lk, [k \in 1..Len(tu) |-> IF (k - 1) \in nx THEN 0 ELSE tu[k]], nx)

\* the fill: the mark 0 spreads over the cells marked 1, front after front
RECURSIVE Flood(_, _, _, _)
Flood(cs, lk, tu, front) ==
  IF front = {} THEN tu
  ELSE LET nx == FrontNeighbors(cs, lk, tu, front)
       IN  Flood(cs, lk, [k \in 1..Len(tu) |-> IF (k - 1) \in nx THEN 0 ELSE tu[k]], nx)

RECURSIVE FillEach(_, _, _, _, _)
FillEach(cs, lk, tu, ps, k) ==
  IF k > Len(ps) THEN tu
  ELSE LET m == MarkEdges(cs, lk, [tu |-> tu, front |-> {}], PolyEdges(ps[k]), 1)
       IN  FillEach(cs, lk, Flood(cs, lk, m.tu, m.front), ps, k + 1)

\* some edge of some polygon is not a mesh edge
EdgeNotRecovered(cs, lk, ps) ==
  \E k \in 1..Len(ps) : \E i \in 1..Len(ps[k]) :
     ~IsEdge(cs, lk, PolyEdges(ps[k])[i][1], PolyEdges(ps[k])[i][2])

\* every edge of the polygon is a mesh edge
PolygonComplete(cs, lk, poly) ==
  \A i \in 1..Len(poly) : IsEdge(cs, lk, PolyEdges(poly)[i][1], PolyEdges(poly)[i][2])

\* the fill that leaves out the polygons with a missing edge and fills the
\* polygons whose edges are all mesh edges
FillPolygonsSkipping(cs, lk, ps, tu) ==
  LET ok == SelectSeq(ps, LAMBDA poly : PolygonComplete(cs, lk, poly))
  IN  [k \in 1..Len(tu) |->
         IF FillEach(cs, lk, tu, ok, 1)[k] = 0 - 1 THEN 1
         ELSE FillEach(cs, lk, tu, ok, 1)[k]]

FillPolygons(cs, lk, ps, tu) ==
  IF EdgeNotRecovered(cs, lk, ps) THEN tu
  ELSE [k \in 1..Len(tu) |->
          IF FillEach(cs, lk, tu, ps, 1)[k] = 0 - 1 THEN 1
          ELSE FillEach(cs, lk, tu, ps, 1)[k]]

-----------------------------------------------------------------------------
(* After the loop: the marks of the triangles (triUse).                    *)

Fill(n, v) == [k \in 1..n |-> v]

\* the point id sequences of length n without repetition
DistinctSeqs(n) == {s \in [1..n -> 0..(N - 1)] : \A i, j \in 1..n : i # j => s[i] # s[j]}

\* the constraint polylines of the model: one edge, or three consecutive edges
Polylines == DistinctSeqs(2) \cup {s \in DistinctSeqs(4) : s[1] < s[4]}

\* the constraint polygons of the model: triangles, written from their least id
Polygons == {s \in DistinctSeqs(3) : s[1] < s[2] /\ s[1] < s[3]}

\* the constraint sources of the model: one polyline, one polygon, or two
\* polygons on different point sets
Sources ==
  {[lines |-> <<l>>, polys |-> <<>>] : l \in Polylines}
  \cup {[lines |-> <<>>, polys |-> <<p>>] : p \in Polygons}
  \cup {[lines |-> <<>>, polys |-> <<pq[1], pq[2]>>] :
          pq \in {r \in Polygons \X Polygons :
                   r[2][2] < r[2][3] /\ SeqToSet(r[1]) # SeqToSet(r[2])}}

\* lines 649-661: with a source RecoverBoundary starts on its lines and
\* polygons, without one every triangle is marked 1
Finish ==
  /\ pc = "finish"
  /\ IF hasSource
     THEN \E src \in Sources :
            /\ srcLines' = src.lines
            /\ srcPolys' = src.polys
            /\ work' = [stage |-> "recover",
                        numTriangles |-> GetNumberOfCells(cells),
                        queue |-> ConstraintEdges(src.lines, src.polys),
                        done |-> <<>>]
            /\ pc' = "recover"
            /\ UNCHANGED triUse
     ELSE /\ UNCHANGED <<srcLines, srcPolys>>
          /\ pc' = "ring"
          /\ IF ~BoundingTriangulation \/ Alpha2 > 0
             THEN /\ work' = [stage |-> "post", numTriangles |-> GetNumberOfCells(cells)]
                  /\ triUse' = Fill(GetNumberOfCells(cells), 1)
             ELSE /\ work' = [stage |-> "post", numTriangles |-> 0]
                  /\ UNCHANGED triUse
  /\ UNCHANGED <<config, points, Transform, cells, links, idx, tri0, stack,
                 NumberOfDuplicatePoints, NumberOfDegeneracies, warnings, out>>

\* RecoverBoundary, one constraint edge: recovered unless it is a mesh edge
RecoverStep ==
  /\ pc = "recover"
  /\ work.queue # <<>>
  /\ LET p1 == Head(work.queue)[1]
         p2 == Head(work.queue)[2]
     IN  IF IsEdge(cells, links, p1, p2)
         THEN /\ UNCHANGED <<cells, links>>
              /\ work' = [work EXCEPT !.queue = Tail(@),
                            !.done = Append(@, [p1 |-> p1, p2 |-> p2, result |-> "present",
                                                why |-> "", tris |-> <<>>, new |-> <<>>,
                                                suspects |-> <<>>, checked |-> 0,
                                                flipped |-> FALSE])]
         ELSE \E r \in RecoverEdge(cells, links, srcLines, srcPolys, p1, p2) :
                /\ cells' = r.cells
                /\ links' = r.links
                /\ work' = [work EXCEPT !.queue = Tail(@),
                              !.done = Append(@, [p1 |-> p1, p2 |-> p2,
                                 result |-> IF r.success = 1 THEN "recovered" ELSE "failed",
                                 why |-> r.why, tris |-> r.tris, new |-> r.new,
                                 suspects |-> r.suspects, checked |-> r.checked,
                                 flipped |-> r.flipped])]
  /\ UNCHANGED <<config, srcLines, srcPolys, points, Transform, pc, idx, tri0, stack,
                 NumberOfDuplicatePoints, NumberOfDegeneracies, triUse, warnings, out>>

\* the end of RecoverBoundary: the marks are allocated and the polygons filled
FillStep ==
  /\ pc = "recover"
  /\ work.queue = <<>>
  /\ triUse' = FillPolygons(cells, links, srcPolys, Fill(GetNumberOfCells(cells), 1))
  /\ warnings' = warnings \cup (IF EdgeNotRecovered(cells, links, srcPolys)
                                THEN {"fill"} ELSE {})
  /\ pc' = "ring"
  /\ UNCHANGED <<config, srcLines, srcPolys, points, Transform, cells, links, idx, tri0,
                 stack, NumberOfDuplicatePoints, NumberOfDegeneracies, work, out>>

\* no cell is taken for a cell of a ring point
RingCellsNone(lk) == {}

\* the cells of the ring points
RingCells(lk) == UNION {SeqToSet(lk[v]) : v \in N..(N + 7)}

\* lines 663-675: triangles connected to the eight ring points are marked 0
DeleteRing ==
  /\ pc = "ring"
  /\ triUse' = IF ~BoundingTriangulation
               THEN [k \in 1..Len(triUse) |->
                       IF (k - 1) \in RingCells(links) THEN 0 ELSE triUse[k]]
               ELSE triUse
  /\ pc' = "alpha"
  /\ UNCHANGED <<config, srcLines, srcPolys, points, Transform, cells, links, idx, tri0, stack,
                 NumberOfDuplicatePoints, NumberOfDegeneracies, work, warnings, out>>

-----------------------------------------------------------------------------
(* The alpha criterion.                                                    *)

\* the coordinates the alpha criterion measures triangle tr in: inPoints when
\* its three points are input points, points otherwise
AlphaPoint(tr, v) ==
  IF tr[1] < N /\ tr[2] < N /\ tr[3] < N THEN Lift(inPts[v + 1]) ELSE GetPoint(v)

\* the comparison turned round: Circumcircle(xx1, xx2, xx3) < alpha2
TooSmall(tr) ==
  LET x1 == AlphaPoint(tr, tr[1])
      x2 == AlphaPoint(tr, tr[2])
      x3 == AlphaPoint(tr, tr[3])
  IN  /\ Sgn(CircumD(x1, x2, x3)) # 0
      /\ Less(Norm2(CircumU(x1, x2, x3)),
              Times(R(Alpha2), Times(CircumD(x1, x2, x3), CircumD(x1, x2, x3))))

\* Circumcircle(xx1, xx2, xx3) > alpha2
TooBig(tr) ==
  LET x1 == AlphaPoint(tr, tr[1])
      x2 == AlphaPoint(tr, tr[2])
      x3 == AlphaPoint(tr, tr[3])
  IN  \/ Sgn(CircumD(x1, x2, x3)) = 0
      \/ Less(Times(R(Alpha2), Times(CircumD(x1, x2, x3), CircumD(x1, x2, x3))),
              Norm2(CircumU(x1, x2, x3)))

\* the first loop: triangles marked 1 whose circumcircle is too big get 0
AlphaMarks(cs, tu) ==
  [k \in 1..Len(tu) |-> IF tu[k] = 1 /\ TooBig(cs[k]) THEN 0 ELSE tu[k]]

\* the points of the triangles the first loop kept at 1
AlphaTriPoints(cs, tu) ==
  UNION {SeqToSet(cs[k]) : k \in {j \in 1..Len(tu) : tu[j] = 1 /\ ~TooBig(cs[j])}}

\* the coordinates an edge is measured in: inPoints when both of its points
\* are input points, points otherwise
AlphaEnd(ap1, ap2, v) == IF ap1 < N /\ ap2 < N THEN Lift(inPts[v + 1]) ELSE GetPoint(v)

\* the edge test without the test of the neighbour across the edge
AlphaEdgeAlone(cs, lk, tu, t, e) ==
  LET ap1 == cs[t + 1][e + 1]
      ap2 == cs[t + 1][((e + 1) % 3) + 1]
  IN  /\ BoundingTriangulation \/ (ap1 < N /\ ap2 < N)
      /\ ~Less(R(4 * Alpha2), Norm2(Sub(AlphaEnd(ap1, ap2, ap1), AlphaEnd(ap1, ap2, ap2))))

\* whether edge e (0..2) of the unmarked cell t becomes an alpha line
AlphaEdge(cs, lk, tu, t, e) ==
  LET ap1 == cs[t + 1][e + 1]
      ap2 == cs[t + 1][((e + 1) % 3) + 1]
      nb  == GetCellEdgeNeighbors(lk, t, ap1, ap2)
  IN  /\ BoundingTriangulation \/ (ap1 < N /\ ap2 < N)
      /\ Len(nb) < 1 \/ (nb[1] > t /\ tu[nb[1] + 1] = 0)
      /\ ~Less(R(4 * Alpha2), Norm2(Sub(AlphaEnd(ap1, ap2, ap1), AlphaEnd(ap1, ap2, ap2))))

\* the second loop, in cell then edge order: the alpha lines
RECURSIVE AlphaLines(_, _, _, _)
AlphaLines(cs, lk, tu, k) ==
  IF k >= 3 * Len(cs) THEN <<>>
  ELSE LET t == k \div 3
           e == k % 3
       IN  (IF tu[t + 1] = 0 /\ AlphaEdge(cs, lk, tu, t, e)
            THEN << <<cs[t + 1][e + 1], cs[t + 1][((e + 1) % 3) + 1]>> >>
            ELSE <<>>) \o AlphaLines(cs, lk, tu, k + 1)

\* the third loop: points used by no kept triangle and no alpha line
AlphaVerts(used) ==
  SelectSeq([k \in 1..(N + 8) |-> k - 1],
            LAMBDA v : (v < N \/ BoundingTriangulation) /\ v \notin used)

\* lines 680-797
AlphaFilter ==
  /\ pc = "alpha"
  /\ IF Alpha2 > 0
     THEN LET tu == AlphaMarks(cells, triUse)
              ls == AlphaLines(cells, links, tu, 0)
              used == AlphaTriPoints(cells, triUse)
                      \cup UNION {SeqToSet(ls[k]) : k \in 1..Len(ls)}
          IN  /\ triUse' = tu
              /\ out' = [out EXCEPT !.lines = ls, !.verts = AlphaVerts(used)]
     ELSE UNCHANGED <<triUse, out>>
  /\ pc' = IF ~BoundingTriangulation /\ Alpha2 = 0 /\ ~hasSource
           THEN "rescue" ELSE "output"
  /\ work' = [stage |-> "rescue", numTriangles |-> work.numTriangles,
              ptId |-> 0, cells |-> <<>>, i |-> 0, numSwaps |-> 0]
  /\ UNCHANGED <<config, srcLines, srcPolys, points, Transform, cells, links, idx, tri0, stack,
                 NumberOfDuplicatePoints, NumberOfDegeneracies, warnings>>

-----------------------------------------------------------------------------
(* The orphan rescue pass, lines 812-981.                                  *)

\* isConnected: some cell of the point is not scheduled for removal
IsConnected(lk, tu, v) == \E k \in 1..Len(lk[v]) : tu[lk[v][k] + 1] # 0

Orphans(lk, tu, from) == {v \in from..(N - 1) : ~IsConnected(lk, tu, v)}

\* the outer loop runs on to the next point that is not connected
RescueNext ==
  /\ pc = "rescue"
  /\ work.i = 0
  /\ IF Orphans(links, triUse, work.ptId) = {}
     THEN /\ pc' = "output"
          /\ work' = [work EXCEPT !.ptId = N, !.cells = <<>>]
     ELSE LET v == SetMin(Orphans(links, triUse, work.ptId))
          IN  /\ pc' = "rescue"
              /\ work' = IF Len(links[v]) = 0
                         THEN [work EXCEPT !.ptId = v + 1, !.cells = <<>>]
                         ELSE [work EXCEPT !.ptId = v, !.cells = links[v], !.i = 1]
  /\ UNCHANGED <<config, srcLines, srcPolys, points, Transform, cells, links, idx, tri0, stack,
                 NumberOfDuplicatePoints, NumberOfDegeneracies, triUse, warnings, out>>

\* the edge of tr opposite to ptId, as the pass orients it
RescueEdge(tr, ptId) ==
  IF tr[1] = ptId THEN <<tr[2], tr[3]>>
  ELSE IF tr[2] = ptId THEN <<tr[3], tr[1]>> ELSE <<tr[1], tr[2]>>

\* the point of tr different from p1 and p2
RescueThird(tr, p1, p2) ==
  IF tr[1] # p1 /\ tr[1] # p2 THEN tr[1]
  ELSE IF tr[2] # p1 /\ tr[2] # p2 THEN tr[2] ELSE tr[3]

\* the sign of the z component of the normal of triangle (a, b, c)
NormalZ(a, b, c) ==
  Sgn(Cross2D(Sub(GetPoint(b), GetPoint(a)), Sub(GetPoint(c), GetPoint(a))))

\* vtkMath::Dot(n1, n2) < 0.0 for the two candidate triangles
NormalsDisagree(ptId, p1, p2, p3) ==
  \/ NormalZ(ptId, p1, p3) > 0 /\ NormalZ(ptId, p3, p2) < 0
  \/ NormalZ(ptId, p1, p3) < 0 /\ NormalZ(ptId, p3, p2) > 0
\* the verdict without the test of the normals
RescueVerdictAnyNormals(cs, lk, ptId, tri1) ==
  LET e  == RescueEdge(GetCellPoints(cs, tri1), ptId)
      nb == GetCellEdgeNeighbors(lk, tri1, e[1], e[2])
  IN  IF e[1] >= N /\ e[2] >= N THEN "skip"
      ELSE IF Len(nb) # 1 THEN "error"
      ELSE "swap"

RescueVerdict(cs, lk, ptId, tri1) ==
  LET e  == RescueEdge(GetCellPoints(cs, tri1), ptId)
      nb == GetCellEdgeNeighbors(lk, tri1, e[1], e[2])
      p3 == RescueThird(GetCellPoints(cs, nb[1]), e[1], e[2])
  IN  IF e[1] >= N /\ e[2] >= N THEN "skip"
      ELSE IF Len(nb) # 1 THEN "error"
      ELSE IF NormalsDisagree(ptId, e[1], e[2], p3) THEN "keep"
      ELSE "swap"

\* one pass of the inner loop over the cells the point had when it was reached
RescueCell ==
  /\ pc = "rescue"
  /\ work.i >= 1
  /\ LET ptId == work.ptId
         tri1 == work.cells[work.i]
         e    == RescueEdge(GetCellPoints(cells, tri1), ptId)
         p1   == e[1]
         p2   == e[2]
         tri2 == GetCellEdgeNeighbors(links, tri1, p1, p2)[1]
         p3   == RescueThird(GetCellPoints(cells, tri2), p1, p2)
         v    == RescueVerdict(cells, links, ptId, tri1)
         last == work.i = Len(work.cells)
     IN  /\ IF v = "swap"
            THEN /\ links' = AddReferenceToCell(AddReferenceToCell(
                               RemoveReferenceToCell(RemoveReferenceToCell(
                                 links, p1, tri2), p2, tri1), ptId, tri2), p3, tri1)
                 /\ cells' = ReplaceCell(ReplaceCell(cells, tri1, <<ptId, p1, p3>>),
                                         tri2, <<ptId, p3, p2>>)
                 /\ triUse' = [triUse EXCEPT
                                 ![tri1 + 1] = IF p1 < N /\ p3 < N THEN 1 ELSE 0,
                                 ![tri2 + 1] = IF p3 < N /\ p2 < N THEN 1 ELSE 0]
            ELSE UNCHANGED <<cells, links, triUse>>
         /\ IF v = "error"
            THEN /\ pc' = "done"
                 /\ out' = [out EXCEPT !.returned = 0]
                 /\ work' = [work EXCEPT !.i = 0]
            ELSE /\ pc' = "rescue"
                 /\ out' = out
                 /\ work' = [work EXCEPT
                      !.ptId = IF last THEN ptId + 1 ELSE ptId,
                      !.cells = IF last THEN <<>> ELSE work.cells,
                      !.i = IF last THEN 0 ELSE work.i + 1,
                      !.numSwaps = IF v = "swap" THEN work.numSwaps + 1
                                   ELSE work.numSwaps]
  /\ UNCHANGED <<config, srcLines, srcPolys, points, Transform, idx, tri0, stack,
                 NumberOfDuplicatePoints, NumberOfDegeneracies, warnings>>

-----------------------------------------------------------------------------
(* Output, lines 983-1026.                                                 *)

\* the triangles whose mark is not 0, in cell order
Surviving(cs, tu, n) ==
  LET ids == SelectSeq([k \in 1..n |-> k], LAMBDA k : tu[k] # 0)
  IN  [j \in 1..Len(ids) |-> cs[ids[j]]]

Output ==
  /\ pc = "output"
  /\ out' = [out EXCEPT
       !.numPoints = IF BoundingTriangulation /\ Transform = "none"
                     THEN N + 8 ELSE N,
       !.polys = IF Alpha2 <= 0 /\ BoundingTriangulation /\ ~hasSource
                 THEN cells
                 ELSE Surviving(cells, triUse, work.numTriangles),
       !.returned = 1]
  /\ Transform' = "none"
  /\ pc' = "done"
  /\ UNCHANGED <<config, srcLines, srcPolys, points, cells, links, idx, tri0, stack,
                 NumberOfDuplicatePoints, NumberOfDegeneracies, triUse, work, warnings>>

-----------------------------------------------------------------------------
(* The run without a constraint source.                                    *)

Next ==
  \/ Bootstrap
  \/ Locate
  \/ CheckEdgeStep
  \/ Poll
  \/ Finish
  \/ DeleteRing
  \/ AlphaFilter
  \/ RescueNext
  \/ RescueCell
  \/ Output

Spec == Init /\ [][Next]_vars

-----------------------------------------------------------------------------
(* The run with a constraint source.                                       *)

\* the inputs of the runs with a source: points in the order Before, the
\* last point may coincide with the one before
SrcInputs ==
  {s \in [1..NumPts -> Grid] :
     /\ Boxed(s)
     /\ \A i \in 1..(NumPts - 2) : Before(s[i], s[i + 1])
     /\ Before(s[NumPts - 1], s[NumPts]) \/ s[NumPts - 1] = s[NumPts]}

InitSrc ==
  /\ inPts \in SrcInputs
  /\ BoundingTriangulation = FALSE
  /\ Alpha2 \in {0, AlphaSq}
  /\ RandomPointInsertion = FALSE
  /\ Transform = "none"
  /\ ProjectionPlaneMode = "xy"
  /\ AbortExecute = FALSE
  /\ hasSource = TRUE
  /\ srcLines = <<>>
  /\ srcPolys = <<>>
  /\ InitRun

NextSrc ==
  \/ Bootstrap
  \/ Locate
  \/ CheckEdgeStep
  \/ Poll
  \/ Finish
  \/ RecoverStep
  \/ FillStep
  \/ DeleteRing
  \/ AlphaFilter
  \/ Output

SpecSrc == InitSrc /\ [][NextSrc]_vars

-----------------------------------------------------------------------------
(* The runs with and without a constraint source together.                 *)

InitAll == Init \/ InitSrc

NextAll ==
  \/ Bootstrap
  \/ Locate
  \/ CheckEdgeStep
  \/ Poll
  \/ Finish
  \/ RecoverStep
  \/ FillStep
  \/ DeleteRing
  \/ AlphaFilter
  \/ RescueNext
  \/ RescueCell
  \/ Output

SpecAll == InitAll /\ [][NextAll]_vars

-----------------------------------------------------------------------------
(* GCDTraversal on its own: constructed for npts points, then asked for    *)
(* the point id of every index in turn.                                    *)

GCDMaxPts == 16

InitGCD ==
  /\ inPts = <<>>
  /\ BoundingTriangulation = FALSE
  /\ Alpha2 = 0
  /\ RandomPointInsertion = TRUE
  /\ Transform = "none"
  /\ ProjectionPlaneMode = "xy"
  /\ AbortExecute = FALSE
  /\ hasSource = FALSE
  /\ srcLines = <<>>
  /\ srcPolys = <<>>
  /\ InitRun

\* GCDTraversal(npts)
GCDConstruct ==
  /\ pc = "start"
  /\ \E npts \in 3..GCDMaxPts :
       work' = [stage |-> "gcd", NPts |-> npts, Prime |-> GCDPrime(npts),
                Offset |-> GCDOffset(npts), visited |-> <<>>]
  /\ pc' = "gcd"
  /\ UNCHANGED <<config, srcLines, srcPolys, points, Transform, cells, links, idx, tri0,
                 stack, NumberOfDuplicatePoints, NumberOfDegeneracies, triUse, warnings,
                 out>>

\* GetPointId(idx), for idx = 0, 1, ..., NPts - 1
GCDVisit ==
  /\ pc = "gcd"
  /\ idx < work.NPts
  /\ work' = [work EXCEPT !.visited = Append(@, GCDGetPointId(work.NPts, idx))]
  /\ idx' = idx + 1
  /\ UNCHANGED <<config, srcLines, srcPolys, points, Transform, pc, cells, links, tri0,
                 stack, NumberOfDuplicatePoints, NumberOfDegeneracies, triUse, warnings,
                 out>>

NextGCD ==
  \/ GCDConstruct
  \/ GCDVisit

SpecGCD == InitGCD /\ [][NextGCD]_vars

-----------------------------------------------------------------------------
(* Vocabulary of the properties.                                           *)

\* the number of triangles of cs that have both a and b
EdgeCount(cs, a, b) ==
  Cardinality({t \in 1..Len(cs) : a \in SeqToSet(cs[t]) /\ b \in SeqToSet(cs[t])})

\* the eight edges between consecutive ring points
RingBoundary == {{N + k, N + ((k + 1) % 8)} : k \in 0..7}

\* the twice signed area of triangle tr in the plane of the mesh
Area2(tr) == NormalZ(tr[1], tr[2], tr[3])

\* two triangles of a sequence that share an edge
Adjacent(ts, i, j) == i # j /\ Cardinality(SeqToSet(ts[i]) \cap SeqToSet(ts[j])) = 2

\* the vertex of ts[i] that is not on the edge it shares with ts[j]
Apex(ts, i, j) == CHOOSE v \in SeqToSet(ts[i]) : v \notin SeqToSet(ts[j])

\* the run has returned with success
Returned == pc = "done" /\ out.returned = 1

-----------------------------------------------------------------------------
(* C1                                                                      *)

\* InCircle of the apex of ts[i] and the three points of its neighbour ts[j]
ApexInCircle(ts, i, j) ==
  InCircle(GetPoint(Apex(ts, i, j)), GetPoint(ts[j][1]), GetPoint(ts[j][2]),
           GetPoint(ts[j][3]))

\* C1: for an input without coincident points and without constraints, after
\* the run every two output triangles that share an edge are locally
\* Delaunay: InCircle of the opposite vertex of the one and the vertices of
\* the other is false.
C1LocallyDelaunay ==
  Returned /\ ~hasSource /\ NumberOfDuplicatePoints = 0 =>
    \A i, j \in 1..Len(out.polys) :
      Adjacent(out.polys, i, j) => ~ApexInCircle(out.polys, i, j)

-----------------------------------------------------------------------------
(* C2                                                                      *)

\* C2: in the working mesh, after bootstrap and after every completed point
\* insertion (split plus all its flips), every edge is incident to exactly
\* two triangles, except the eight ring-boundary edges, which are incident
\* to exactly one; and no edge is ever incident to three or more triangles,
\* in the middle of an insertion either.
C2EdgeManifold ==
  /\ pc \in {"locate", "finish"} \/ (pc = "flip" /\ stack = <<>>) =>
       \A a, b \in DOMAIN links : a < b =>
         EdgeCount(cells, a, b) =
           (IF {a, b} \in RingBoundary THEN 1
            ELSE IF EdgeCount(cells, a, b) = 0 THEN 0 ELSE 2)
  /\ pc \in {"locate", "flip", "finish"} =>
       \A a, b \in DOMAIN links : a < b => EdgeCount(cells, a, b) <= 2

\* every point has been inserted, one of them on an edge, and flips were made
C2Witness ==
  /\ pc = "flip"
  /\ stack = <<>>
  /\ N = NumPts
  /\ idx = N - 1
  /\ work.found = "edge"
  /\ Len(cells) = 6 + 2 * N
  /\ \E t \in 1..6 : cells[t] # SeedTriangles(N)[t] /\ cells[t][1] < N

-----------------------------------------------------------------------------
(* C3                                                                      *)

\* the cell list of every point holds exactly the cells the point is a vertex
\* of, each of them once
LinksAgree(cs, lk) ==
  \A v \in DOMAIN lk :
    /\ \A t \in 0..(Len(cs) - 1) : (t \in SeqToSet(lk[v])) <=> CellHas(cs, t, v)
    /\ \A k \in 1..Len(lk[v]) : lk[v][k] \in 0..(Len(cs) - 1)
    /\ \A j, k \in 1..Len(lk[v]) : j # k => lk[v][j] # lk[v][k]

\* C3: after every mesh edit of the inserter, of a CheckEdge flip, of a
\* RecoverEdge replacement and of an orphan-rescue swap, the point-to-cells
\* and the cell-to-points maps agree: triangle t is in the cell list of
\* vertex v if and only if v is one of the three vertices of t.
C3LinksAgree == LinksAgree(cells, links)

\* a constraint edge has been recovered by replacing the triangles it crossed
C3Witness ==
  /\ pc = "recover"
  /\ \E k \in 1..Len(work.done) :
       /\ work.done[k].result = "recovered"
       /\ Len(work.done[k].new) >= 2
       /\ \A j \in 1..Len(work.done[k].new) :
            cells[work.done[k].tris[j] + 1] = work.done[k].new[j]
  /\ cells # <<>>

-----------------------------------------------------------------------------
(* C4                                                                      *)

\* C4: for all inputs, all edge-adjacent surviving output triangles have the
\* same orientation (the dot product of their normals, which are along z, is
\* >= 0), both when the points were inserted strictly inside a triangle and
\* when a point was inserted on an edge.
C4SameOrientation ==
  Returned =>
    \A i, j \in 1..Len(out.polys) :
      Adjacent(out.polys, i, j) => Area2(out.polys[i]) * Area2(out.polys[j]) >= 0

-----------------------------------------------------------------------------
(* C5                                                                      *)

\* x lies on the segment (a, b), strictly between its ends
Within(a, b, x) ==
  Sgn(Cross2D(Sub(b, a), Sub(x, a))) = 0 /\ Sgn(Dot2D(Sub(x, a), Sub(x, b))) < 0

\* the segments (a, b) and (c, d) cross in a point interior to both
Crosses(a, b, c, d) ==
  /\ Sgn(Cross2D(Sub(b, a), Sub(c, a))) * Sgn(Cross2D(Sub(b, a), Sub(d, a))) < 0
  /\ Sgn(Cross2D(Sub(d, c), Sub(a, c))) * Sgn(Cross2D(Sub(d, c), Sub(b, c))) < 0

\* the segments (a, b) and (c, d) have a point in common that is interior to
\* one of them at least
Meets(a, b, c, d) ==
  \/ Crosses(a, b, c, d)
  \/ Within(a, b, c) \/ Within(a, b, d)
  \/ Within(c, d, a) \/ Within(c, d, b)

\* RecoverBoundary has visited every constraint edge
RecoveryFinished == hasSource /\ pc = "recover" /\ work.queue = <<>>

\* the constraint edge visited k-th was a mesh edge or was recovered
Secured(k) == work.done[k].result \in {"present", "recovered"}

\* a constraint edge visited after the k-th crosses or touches the k-th
CrossedLater(k) ==
  \E j \in (k + 1)..Len(work.done) :
     Meets(GetPoint(work.done[k].p1), GetPoint(work.done[k].p2),
           GetPoint(work.done[j].p1), GetPoint(work.done[j].p2))

\* C5: every constraint edge that was already a mesh edge or for which
\* RecoverEdge returned success is a mesh edge when RecoverBoundary finishes:
\* neither the flip check after a recovery nor the recovery of a later
\* constraint edge removes it.
C5EdgeKept ==
  RecoveryFinished =>
    \A k \in 1..Len(work.done) :
      Secured(k) => IsEdge(cells, links, work.done[k].p1, work.done[k].p2)

\* C5, amended: every constraint edge that was already a mesh edge or for
\* which RecoverEdge returned success, and that no constraint edge visited
\* after it crosses or touches between its ends, is a mesh edge when
\* RecoverBoundary finishes.
C5EdgeKeptUnlessMet ==
  RecoveryFinished =>
    \A k \in 1..Len(work.done) :
      Secured(k) /\ ~CrossedLater(k) =>
        IsEdge(cells, links, work.done[k].p1, work.done[k].p2)

\* a constraint edge was a mesh edge or was recovered, and a constraint edge
\* visited after it, which does not meet it, was recovered by replacing
\* triangles
C5Witness ==
  /\ RecoveryFinished
  /\ \E k \in 1..Len(work.done) :
       /\ Secured(k)
       /\ ~CrossedLater(k)
       /\ \E j \in (k + 1)..Len(work.done) :
            work.done[j].result = "recovered" /\ Len(work.done[j].new) >= 2

-----------------------------------------------------------------------------
(* C6                                                                      *)

\* the step is a visit of RecoverBoundary in which RecoverEdge fails
RecoverEdgeFails ==
  /\ hasSource
  /\ pc = "recover"
  /\ work.queue # <<>>
  /\ Len(work'.done) = Len(work.done) + 1
  /\ work'.done[Len(work'.done)].result = "failed"

\* C6: whenever RecoverEdge returns failure (coincident end points, no
\* starting triangle, a traversed edge without exactly one neighbour, or a
\* chain polygon that cannot be triangulated), the cells and the cell lists
\* of the points are what they were before the call, and RecoverBoundary
\* goes on with the remaining constraint edges.
C6FailureKeepsMesh ==
  [][RecoverEdgeFails =>
       /\ work'.done[Len(work'.done)].why
            \in {"coincident", "start", "neighbors", "triangulate"}
       /\ cells' = cells
       /\ links' = links
       /\ pc' = "recover"
       /\ work'.queue = Tail(work.queue)]_vars

\* a recovery failed because a chain polygon was refused, and a constraint
\* edge visited after it was recovered
C6Witness ==
  /\ hasSource
  /\ pc = "recover"
  /\ \E k \in 1..Len(work.done) :
       /\ work.done[k].result = "failed"
       /\ work.done[k].why = "triangulate"
       /\ \E j \in (k + 1)..Len(work.done) : work.done[j].result = "recovered"

-----------------------------------------------------------------------------
(* C7                                                                      *)

\* FillPolygons has returned
Filled == hasSource /\ pc = "ring"

-----------------------------------------------------------------------------
(* C8                                                                      *)

\* C8: when BoundingTriangulation is off, no output triangle has a ring point
\* (index >= N) as a vertex, whatever Alpha, the constraint source and the
\* swaps of the orphan rescue.
C8NoRingVertex ==
  Returned /\ ~BoundingTriangulation =>
    \A i \in 1..Len(out.polys) : \A k \in 1..3 : out.polys[i][k] < N

\* a run without the bounding triangulation whose orphan rescue swapped edges
\* has triangles in its output
C8Witness ==
  /\ Returned
  /\ ~BoundingTriangulation
  /\ N > 2
  /\ work.stage = "rescue"
  /\ work.numSwaps > 0
  /\ out.polys # <<>>

-----------------------------------------------------------------------------
(* C9                                                                      *)

\* C9: when BoundingTriangulation is on together with a Transform (or the
\* best-fitting-plane mode), the output does not contain the bounding
\* triangulation: the output points are the N input points and no output
\* triangle has a ring point, so every vertex index of every output triangle
\* is a valid index of the output point set.
C9OutputWithoutRing ==
  [][pc = "output" /\ BoundingTriangulation /\ Transform # "none" =>
       /\ out'.numPoints = N
       /\ \A i \in 1..Len(out'.polys) : \A k \in 1..3 :
            out'.polys[i][k] < out'.numPoints]_vars

-----------------------------------------------------------------------------
(* C10                                                                     *)

\* C10: for every N >= 3 the constructor of GCDTraversal ends with a
\* multiplier Prime that is coprime to N and lies in N div 2 + 1 .. N - 1, and
\* the ids GetPointId gives for idx = 0, 1, ... are ids of 0 .. N - 1 that
\* never repeat, so that after N of them every id has been given exactly once.
C10Permutation ==
  pc = "gcd" =>
    /\ work.NPts >= 3
    /\ work.Offset = work.NPts \div 2
    /\ ComputeGCD(work.Prime, work.NPts) = 1
    /\ work.Offset + 1 <= work.Prime
    /\ work.Prime <= work.NPts - 1
    /\ Len(work.visited) = idx
    /\ \A i \in 1..idx : work.visited[i] = (work.Prime * (i - 1) + work.Offset) % work.NPts
    /\ \A i \in 1..idx : work.visited[i] \in 0..(work.NPts - 1)
    /\ \A i, j \in 1..idx : i # j => work.visited[i] # work.visited[j]
    /\ idx = work.NPts => SeqToSet(work.visited) = 0..(work.NPts - 1)

\* a traversal of a number of points whose first candidate multiplier is not
\* coprime to it has visited every index
C10Witness ==
  /\ pc = "gcd"
  /\ work.NPts = 6
  /\ work.Prime = 5
  /\ idx = work.NPts
  /\ work.visited = <<3, 2, 1, 0, 5, 4>>

-----------------------------------------------------------------------------
(* A second run of the same filter.  The caller changes an option or the   *)
(* input of a filter that has returned and updates it again: RequestData   *)
(* starts over, on an empty output and a new mesh.                         *)

\* the triangles of an output as a set, each triangle as the set of the
\* places of its points
TriPlaces(polys) == {{GetPoint(polys[i][k]) : k \in 1..3} : i \in 1..Len(polys)}

\* what the second run is compared with: the output and the counters of the
\* first
Keep(kind) ==
  [kind |-> kind, polys |-> out.polys, returned |-> out.returned,
   places |-> TriPlaces(out.polys),
   dups |-> NumberOfDuplicatePoints, degens |-> NumberOfDegeneracies,
   alpha2 |-> Alpha2]

\* the locals of RequestData and the output at the start of a run
Restart ==
  /\ points' = <<>>
  /\ pc' = "start"
  /\ cells' = <<>>
  /\ links' = <<>>
  /\ idx' = 0
  /\ tri0' = 0
  /\ stack' = <<>>
  /\ triUse' = <<>>
  /\ work' = NoWork
  /\ warnings' = {}
  /\ out' = NoOut
  /\ UNCHANGED <<Transform, NumberOfDuplicatePoints, NumberOfDegeneracies, srcLines,
                 srcPolys, hasSource, ProjectionPlaneMode, AbortExecute,
                 BoundingTriangulation>>

\* the triangles of an output as a set, each triangle as the set of its points
TriSet(polys) == {SeqToSet(polys[i]) : i \in 1..Len(polys)}

\* the runs that are made twice: default options but for BoundingTriangulation
InitTwice ==
  /\ inPts \in Inputs
  /\ BoundingTriangulation \in BOOLEAN
  /\ Alpha2 = 0
  /\ RandomPointInsertion = FALSE
  /\ Transform = "none"
  /\ ProjectionPlaneMode = "xy"
  /\ AbortExecute = FALSE
  /\ hasSource = FALSE
  /\ srcLines = <<>>
  /\ srcPolys = <<>>
  /\ InitRun

\* RandomPointInsertionOn() and a second Update() of the same input
RerunRandom ==
  /\ pc = "done"
  /\ prior.kind = "none"
  /\ ~RandomPointInsertion
  /\ RandomPointInsertion' = TRUE
  /\ prior' = Keep("random")
  /\ Restart
  /\ UNCHANGED <<inPts, Alpha2>>

NextRandom ==
  \/ Bootstrap
  \/ Locate
  \/ CheckEdgeStep
  \/ Poll
  \/ Finish
  \/ DeleteRing
  \/ AlphaFilter
  \/ RescueNext
  \/ RescueCell
  \/ Output
  \/ RerunRandom

SpecRandom == InitTwice /\ [][NextRandom]_vars

-----------------------------------------------------------------------------
(* C11                                                                     *)

\* a circle passes through the four points
Cocircular(a, b, c, d) ==
  /\ Sgn(CircumD(a, b, c)) # 0
  /\ Norm2(<<Minus(Times(CircumD(a, b, c), Sub(d, a)[1]), CircumU(a, b, c)[1]),
             Minus(Times(CircumD(a, b, c), Sub(d, a)[2]), CircumU(a, b, c)[2])>>)
       = Norm2(CircumU(a, b, c))

NoFourCocircular ==
  \A i, j, k, l \in 1..N :
    i < j /\ j < k /\ k < l =>
      ~Cocircular(Lift(inPts[i]), Lift(inPts[j]), Lift(inPts[k]), Lift(inPts[l]))

\* C11: for the same input with no four cocircular points, the set of output
\* triangles with RandomPointInsertion on (the order of GCDTraversal) is the
\* set of output triangles with it off (the order of the point ids).
C11SameTriangles ==
  pc = "done" /\ prior.kind = "random" /\ NoFourCocircular =>
    /\ out.returned = prior.returned
    /\ TriSet(out.polys) = TriSet(prior.polys)

\* both runs of an input of NumPts points, no four of them cocircular, have
\* returned, and the output has two triangles at least
C11Witness ==
  /\ pc = "done"
  /\ prior.kind = "random"
  /\ NoFourCocircular
  /\ N = NumPts
  /\ Len(out.polys) >= 2
  /\ Len(prior.polys) >= 2

-----------------------------------------------------------------------------
(* The same input with a second copy of one of its points appended.        *)

CopyInputs == {s \in Sorted(2) \cup Sorted(3) \cup Sorted(NumPts) : Boxed(s)}

InitCopy ==
  /\ inPts \in CopyInputs
  /\ BoundingTriangulation \in BOOLEAN
  /\ Alpha2 \in {0, AlphaSq}
  /\ RandomPointInsertion \in BOOLEAN
  /\ Transform = "none"
  /\ ProjectionPlaneMode = "xy"
  /\ AbortExecute = FALSE
  /\ hasSource = FALSE
  /\ srcLines = <<>>
  /\ srcPolys = <<>>
  /\ InitRun

\* the caller appends a copy of point k to the input and updates the filter
RerunCopy ==
  /\ pc = "done"
  /\ prior.kind = "none"
  /\ \E k \in 1..N : inPts' = Append(inPts, inPts[k])
  /\ prior' = Keep("copy")
  /\ Restart
  /\ UNCHANGED <<Alpha2, RandomPointInsertion>>

NextCopy ==
  \/ Bootstrap
  \/ Locate
  \/ CheckEdgeStep
  \/ Poll
  \/ Finish
  \/ DeleteRing
  \/ AlphaFilter
  \/ RescueNext
  \/ RescueCell
  \/ Output
  \/ RerunCopy

SpecCopy == InitCopy /\ [][NextCopy]_vars

\* the second run has returned; the first was on the input without the copy
CopyDone == pc = "done" /\ prior.kind = "copy"

\* C12, as stated: appending a second copy of one of the input's points
\* leaves the set of output triangles as it was and raises
\* NumberOfDuplicatePoints by exactly one.
C12SameWithCopy ==
  CopyDone =>
    /\ TriPlaces(out.polys) = prior.places
    /\ NumberOfDuplicatePoints = prior.dups + 1

\* C12, amended: with RandomPointInsertion off and an input of at least
\* three points, appending a second copy of one of the input's points leaves
\* the return value and the set of output triangles as they were, raises
\* NumberOfDuplicatePoints by exactly one and leaves NumberOfDegeneracies as
\* it was; the copy is in no triangle of the mesh.
C12CopyIsDuplicate ==
  CopyDone /\ ~RandomPointInsertion /\ N > 3 =>
    /\ out.returned = prior.returned
    /\ TriPlaces(out.polys) = prior.places
    /\ ~BoundingTriangulation => TriSet(out.polys) = TriSet(prior.polys)
    /\ NumberOfDuplicatePoints = prior.dups + 1
    /\ NumberOfDegeneracies = prior.degens
    /\ links[N - 1] = <<>>

C12Witness ==
  /\ CopyDone
  /\ ~RandomPointInsertion
  /\ N = NumPts + 1
  /\ Len(out.polys) >= 2
  /\ NumberOfDuplicatePoints = 1
  /\ inPts[N] = inPts[1]

-----------------------------------------------------------------------------
(* The same input with two values of Alpha.                                *)

\* a second, larger value of Alpha*Alpha
AlphaWide == 2 * AlphaSq

InitAlpha ==
  /\ inPts \in {s \in Sorted(3) \cup Sorted(NumPts) : Boxed(s)}
  /\ BoundingTriangulation \in BOOLEAN
  /\ Alpha2 \in {AlphaSq, AlphaWide}
  /\ RandomPointInsertion = FALSE
  /\ Transform = "none"
  /\ ProjectionPlaneMode = "xy"
  /\ AbortExecute = FALSE
  /\ hasSource = FALSE
  /\ srcLines = <<>>
  /\ srcPolys = <<>>
  /\ InitRun

\* the caller lowers Alpha and updates the filter
RerunAlpha ==
  /\ pc = "done"
  /\ prior.kind = "none"
  /\ \E a \in {0, AlphaSq, AlphaWide} : a <= Alpha2 /\ Alpha2' = a
  /\ prior' = Keep("alpha")
  /\ Restart
  /\ UNCHANGED <<inPts, RandomPointInsertion>>

NextAlpha ==
  \/ Bootstrap
  \/ Locate
  \/ CheckEdgeStep
  \/ Poll
  \/ Finish
  \/ DeleteRing
  \/ AlphaFilter
  \/ RescueNext
  \/ RescueCell
  \/ Output
  \/ RerunAlpha

SpecAlpha == InitAlpha /\ [][NextAlpha]_vars

\* the second run has returned; the first was with an Alpha at least as large
AlphaDone == pc = "done" /\ prior.kind = "alpha"

\* C13, as stated: for Alpha values a1 >= a2 >= 0, a2 = 0 included, every
\* output triangle of the run with a2 is an output triangle of the run with a1.
C13AlphaMonotoneFromZero ==
  AlphaDone => TriSet(out.polys) \subseteq TriSet(prior.polys)

\* C13, amended: for Alpha values a1 >= a2 > 0, every output triangle of the
\* run with a2 is an output triangle of the run with a1.
C13AlphaMonotone ==
  AlphaDone /\ Alpha2 > 0 =>
    /\ out.returned = prior.returned
    /\ TriSet(out.polys) \subseteq TriSet(prior.polys)

C13Witness ==
  /\ AlphaDone
  /\ Alpha2 = AlphaSq
  /\ prior.alpha2 = AlphaWide
  /\ out.polys # <<>>
  /\ TriSet(out.polys) # TriSet(prior.polys)

-----------------------------------------------------------------------------
(* Fewer than three input points.                                          *)

\* C14: with fewer than 3 input points (or none) the run returns success
\* from its first step: no points are copied, no mesh is built, nothing is
\* inserted, and the output has no triangles, lines or vertices.
C14TooFewPoints ==
  N < 3 /\ pc # "start" =>
    /\ pc = "done"
    /\ out.returned = 1
    /\ points = <<>> /\ cells = <<>> /\ links = <<>>
    /\ idx = 0 /\ triUse = <<>>
    /\ out.numPoints = 0
    /\ out.polys = <<>> /\ out.lines = <<>> /\ out.verts = <<>>

C14Witness == N = 2 /\ pc = "done" /\ BoundingTriangulation /\ out.returned = 1

-----------------------------------------------------------------------------
(* The insertion loop as a sequence of passes and polls: which point each  *)
(* pass takes and whether the pass ends with a poll, without the mesh.     *)

\* the largest number of points of these loops
PollMaxPts == 3001

InitPoll ==
  /\ inPts = <<>>
  /\ BoundingTriangulation = FALSE
  /\ Alpha2 = 0
  /\ RandomPointInsertion \in BOOLEAN
  /\ Transform = "none"
  /\ ProjectionPlaneMode = "xy"
  /\ AbortExecute \in BOOLEAN
  /\ hasSource = FALSE
  /\ srcLines = <<>>
  /\ srcPolys = <<>>
  /\ InitRun

\* GCDTraversal gcdIter(numPoints); since: passes since the last poll (or
\* the start); gap: passes from the poll before (or the start) to the last poll
LoopStart ==
  /\ pc = "start"
  /\ \E npts \in {3, PollEvery, PollMaxPts - 1, PollMaxPts} :
       work' = [stage |-> "loop", NPts |-> npts, since |-> 0, gap |-> 0, polls |-> 0]
  /\ pc' = "loop"
  /\ UNCHANGED <<config, srcLines, srcPolys, points, Transform, cells, links, idx, tri0,
                 stack, NumberOfDuplicatePoints, NumberOfDegeneracies, triUse, warnings,
                 out>>

\* the point of pass idx
LoopPtId == IF RandomPointInsertion THEN GCDGetPointId(work.NPts, idx) ELSE idx

\* one pass of the loop: the point is processed, then if (!(ptId % 1000))
\* the abort flag is polled
LoopPass ==
  /\ pc = "loop"
  /\ idx < work.NPts
  /\ IF LoopPtId % PollEvery = 0
     THEN /\ work' = [work EXCEPT !.since = 0, !.gap = work.since + 1,
                                  !.polls = @ + 1]
          /\ IF AbortExecute
             THEN pc' = "finish" /\ idx' = idx
             ELSE pc' = pc /\ idx' = idx + 1
     ELSE /\ work' = [work EXCEPT !.since = @ + 1]
          /\ pc' = pc
          /\ idx' = idx + 1
  /\ UNCHANGED <<config, srcLines, srcPolys, points, Transform, cells, links, tri0,
                 stack, NumberOfDuplicatePoints, NumberOfDegeneracies, triUse, warnings,
                 out>>

NextPoll ==
  \/ LoopStart
  \/ LoopPass

SpecPoll == InitPoll /\ [][NextPoll]_vars

\* C15: before the first poll and between two consecutive polls at most 1000
\* points are processed, in natural order and in GCD order.
C15PolledEveryThousand ==
  pc \in {"loop", "finish"} => work.since <= PollEvery /\ work.gap <= PollEvery

-----------------------------------------------------------------------------
(* The runs in which the caller has set the abort flag.                    *)

\* three distinct points in any order, or NumPts points in the order Before
AbortInputs ==
  {s \in [1..3 -> Grid] : Boxed(s) /\ \A i, j \in 1..3 : i # j => s[i] # s[j]}
  \cup {s \in Sorted(NumPts) : Boxed(s)}

InitAbort ==
  /\ inPts \in AbortInputs
  /\ BoundingTriangulation \in BOOLEAN
  /\ Alpha2 \in {0, AlphaSq}
  /\ RandomPointInsertion \in BOOLEAN
  /\ Transform = "none"
  /\ ProjectionPlaneMode = "xy"
  /\ AbortExecute = TRUE
  /\ hasSource = FALSE
  /\ srcLines = <<>>
  /\ srcPolys = <<>>
  /\ InitRun

SpecAbort == InitAbort /\ [][Next]_vars

\* the poll has found the flag set and the loop has been left
Aborted == AbortExecute /\ N > 2 /\ pc \notin {"start", "locate", "flip"}

\* the points the loop has taken when it is in pass idx
Taken == {IF RandomPointInsertion THEN GCDGetPointId(N, j) ELSE j : j \in 0..idx}

\* C16: once a poll has found the abort flag set, no further point is
\* inserted (the points the loop has not taken have empty cell lists), the
\* mesh the loop leaves has consistent links and no edge with more than two
\* triangles, and the run goes on to return success.
C16AbortLeavesValidMesh ==
  Aborted =>
    /\ \A v \in 0..(N - 1) : v \notin Taken => links[v] = <<>>
    /\ pc = "finish" =>
         /\ LinksAgree(cells, links)
         /\ \A a, b \in DOMAIN links : a < b => EdgeCount(cells, a, b) <= 2
    /\ pc = "done" => out.returned = 1

-----------------------------------------------------------------------------
(* C17                                                                     *)

\* C17: whenever RecoverEdge has returned failure for an edge of a
\* constraint polyline or polygon, a warning has been emitted by the time
\* RecoverBoundary returns.
C17FailureWarned ==
  Filled /\ (\E k \in 1..Len(work.done) : work.done[k].result = "failed")
    => warnings # {}

-----------------------------------------------------------------------------
(* C18                                                                     *)

\* the orphan rescue pass has run to its end and the output is assembled
Rescued ==
  /\ pc = "done"
  /\ N > 2
  /\ out.returned = 1
  /\ ~BoundingTriangulation /\ Alpha2 = 0 /\ ~hasSource

\* C18: in the output of a run whose orphan rescue pass has run (no
\* bounding triangulation, Alpha 0, no source), every input point that was
\* inserted into the mesh is a vertex of at least one output triangle.
C18InsertedPointsSurvive ==
  Rescued =>
    \A v \in 0..(N - 1) :
      links[v] # <<>> => \E k \in 1..Len(out.polys) : v \in SeqToSet(out.polys[k])

-----------------------------------------------------------------------------
(* C19                                                                     *)

\* the triangles other than t that have both p1 and p2 among their vertices
Across(t, p1, p2) ==
  {n \in 0..(Len(cells) - 1) : n # t /\ {p1, p2} \subseteq SeqToSet(cells[n + 1])}

\* the vertex of triangle n that is neither p1 nor p2
Opposite(n, p1, p2) == CHOOSE v \in SeqToSet(cells[n + 1]) : v # p1 /\ v # p2

\* the circle test of the claim: x is strictly inside the circumcircle of
\* (x1, x2, x3), or that circle is larger than the bounding radius allows
CircleTest(x, x1, x2, x3) ==
  LET d == CircumD(x1, x2, x3)
      u == CircumU(x1, x2, x3)
      r == Norm2(u)
      w == Sub(x, x1)
      e == <<Minus(Times(d, w[1]), u[1]), Minus(Times(d, w[2]), u[2])>>
  IN  \/ Sgn(d) = 0
      \/ Less(Times(BoundingRadius2, Times(d, d)), r)
      \/ Less(Norm2(e), r)

\* a call of CheckEdge is pending: the head of the stack, for the point
\* being inserted
Pending == pc = "flip" /\ stack # <<>>

\* C19: a call CheckEdge(pnew, p1, p2, t) either leaves the mesh as it is
\* and makes no further call, or swaps the diagonal: t has a neighbour n
\* across (p1, p2) whose opposite vertex p3 passes the circle test against
\* (pnew, p1, p2), t becomes (pnew, p3, p2) and n becomes (pnew, p1, p3), and
\* nothing else of the cells changes. Without a neighbour, or when no
\* neighbour's opposite vertex passes the test, the mesh is left as it is.
C19SwapOnlyInCircle ==
  [][Pending =>
       LET c    == Head(stack)
           pnew == work.ptId
           same == cells' = cells /\ links' = links /\ stack' = Tail(stack)
           ok(n) == CircleTest(GetPoint(Opposite(n, c.p1, c.p2)), GetPoint(pnew),
                               GetPoint(c.p1), GetPoint(c.p2))
       IN  /\ \/ same
              \/ \E n \in Across(c.tri, c.p1, c.p2) :
                   /\ ok(n)
                   /\ cells' = [cells EXCEPT
                        ![c.tri + 1] = <<pnew, Opposite(n, c.p1, c.p2), c.p2>>,
                        ![n + 1] = <<pnew, c.p1, Opposite(n, c.p1, c.p2)>>]
           /\ (\A n \in Across(c.tri, c.p1, c.p2) : ~ok(n)) => same]_vars

\* a swap has just been made: the call at the head of the stack is the
\* first of the two a swap makes, for the rewritten triangle t
C19Witness ==
  /\ Pending
  /\ Head(stack).depth > 1
  /\ cells[Head(stack).tri + 1] = <<work.ptId, Head(stack).p1, Head(stack).p2>>
  /\ Len(stack) > 1
  /\ stack[2].depth = Head(stack).depth + 1
  /\ cells[stack[2].tri + 1] = <<work.ptId, stack[2].p1, stack[2].p2>>

-----------------------------------------------------------------------------
(* C20                                                                     *)

\* x is not on the outer side of any edge of triangle tr: for each edge, x
\* is on the line of the edge or on the side of the third vertex
NonOutward(x, tr) ==
  \A i \in 0..2 :
    LET a == GetPoint(tr[i + 1])
        b == GetPoint(tr[((i + 1) % 3) + 1])
        o == GetPoint(tr[((i + 2) % 3) + 1])
    IN  Sgn(Cross2D(Sub(b, a), Sub(x, a))) * Sgn(Cross2D(Sub(b, a), Sub(o, a))) >= 0

\* the projection of x on the normal of the edge (p1, p2) is zero, which is
\* what a magnitude below 1e-14 is for the numbers of the model
OnLine(x, p1, p2) ==
  Sgn(Cross2D(Sub(GetPoint(p2), GetPoint(p1)), Sub(x, GetPoint(p1)))) = 0

\* the step is a return of FindTriangle with a triangle id
Found == pc = "locate" /\ pc' = "flip" /\ work'.found \in {"in", "edge"}

-----------------------------------------------------------------------------
(* C21                                                                     *)

\* the walks FindTriangle can make for the point the loop is about to take
Walks == FindTriangle(cells, links, GetPoint(CurPtId), tri0, <<-1, -1, -1>>, MaxWalk)

-----------------------------------------------------------------------------
(* C22                                                                     *)

\* the points of the insertion loop that are in the mesh
Inserted == {v \in 0..(N - 1) : links[v] # <<>>}

\* the points the insertion loop has taken when it is left
Processed == IF idx < N THEN idx + 1 ELSE N

\* a point whose location failed is being passed over
Skipping == pc = "flip" /\ stack = <<>> /\ work.found \in {"dup", "degen"}

\* a failed location: the mesh stays and one counter goes up by one
SkipStep ==
  (pc = "locate" /\ work'.found \notin {"in", "edge"}) =>
    /\ pc' = "flip" /\ stack' = <<>>
    /\ cells' = cells /\ links' = links
    /\ \/ /\ NumberOfDuplicatePoints' = NumberOfDuplicatePoints + 1
          /\ NumberOfDegeneracies' = NumberOfDegeneracies
       \/ /\ NumberOfDuplicatePoints' = NumberOfDuplicatePoints
          /\ NumberOfDegeneracies' = NumberOfDegeneracies + 1

\* after a failed location the loop takes the next point
SkipGoesOn ==
  (Skipping /\ ~(AbortExecute /\ work.ptId % PollEvery = 0)) =>
    /\ idx' = idx + 1
    /\ pc' = IF idx + 1 < N THEN "locate" ELSE "finish"
    /\ cells' = cells /\ links' = links

\* C22: a failed location leaves cells and links as they were and adds one
\* to exactly one of NumberOfDuplicatePoints and NumberOfDegeneracies; the
\* loop then goes on to the next point (unless the run is aborted on that
\* pass); so when the loop is left the inserted points, the duplicates and
\* the degeneracies add up to the points the loop has taken.
C22SkipsCounted ==
  /\ [](pc = "finish" =>
          Cardinality(Inserted) + NumberOfDuplicatePoints + NumberOfDegeneracies
            = Processed)
  /\ [][SkipStep /\ SkipGoesOn]_vars

\* a point was skipped as a duplicate and the point the loop took after it
\* was inserted
C22Witness ==
  /\ pc = "finish"
  /\ idx = N
  /\ ~RandomPointInsertion
  /\ NumberOfDuplicatePoints > 0
  /\ NumberOfDegeneracies = 0
  /\ \E v \in 0..(N - 2) : links[v] = <<>> /\ v + 1 \in Inserted

-----------------------------------------------------------------------------
(* C23: CheckEdge entered at depths up to MAX_RECURSION_DEPTH.             *)

\* the depths the calls of lines 562-564 and 616 are entered at: 1 as in
\* RequestData, and the depths next to MAX_RECURSION_DEPTH, which stand for
\* the calls a chain of that many flips arrives at
Depths == {1, MAX_RECURSION_DEPTH - 1, MAX_RECURSION_DEPTH}

Deepen(st, d) == [k \in DOMAIN st |-> [st[k] EXCEPT !.depth = d]]

\* Locate with the calls of CheckEdge entered at a depth of Depths
LocateDeep ==
  /\ pc = "locate"
  /\ idx < N
  /\ \E r \in FindTriangle(cells, links, GetPoint(CurPtId), tri0, <<-1, -1, -1>>, MaxWalk) :
       /\ work' = [stage |-> "insert", ptId |-> CurPtId, found |-> r.kind,
                   tri |-> r.tri, ptIds |-> r.ptIds, nei |-> r.nei,
                   visited |-> MaxWalk - r.left + 1]
       /\ IF r.kind = "in"
          THEN /\ cells' = SplitTriangle(r, CurPtId).cells
               /\ links' = SplitTriangle(r, CurPtId).links
               /\ \E d \in Depths : stack' = Deepen(SplitTriangle(r, CurPtId).stack, d)
               /\ tri0' = r.tri
               /\ pc' = "flip"
               /\ UNCHANGED <<NumberOfDuplicatePoints, NumberOfDegeneracies>>
          ELSE IF r.kind = "edge"
          THEN /\ cells' = SplitEdge(r, CurPtId).cells
               /\ links' = SplitEdge(r, CurPtId).links
               /\ \E d \in Depths : stack' = Deepen(SplitEdge(r, CurPtId).stack, d)
               /\ tri0' = r.tri
               /\ pc' = "flip"
               /\ UNCHANGED <<NumberOfDuplicatePoints, NumberOfDegeneracies>>
          ELSE /\ UNCHANGED <<cells, links, stack>>
               /\ tri0' = 0
               /\ pc' = IF r.kind \in {"dup", "degen"} THEN "flip" ELSE r.kind
               /\ NumberOfDuplicatePoints' =
                    NumberOfDuplicatePoints + (IF r.kind = "dup" THEN 1 ELSE 0)
               /\ NumberOfDegeneracies' =
                    NumberOfDegeneracies + (IF r.kind = "degen" THEN 1 ELSE 0)
  /\ UNCHANGED <<config, srcLines, srcPolys, points, Transform, idx, triUse, warnings, out>>

InitDeep ==
  /\ inPts \in Inputs
  /\ BoundingTriangulation = FALSE
  /\ Alpha2 = 0
  /\ RandomPointInsertion = FALSE
  /\ Transform = "none"
  /\ ProjectionPlaneMode = "xy"
  /\ AbortExecute = FALSE
  /\ hasSource = FALSE
  /\ srcLines = <<>>
  /\ srcPolys = <<>>
  /\ InitRun

NextDeep ==
  \/ Bootstrap
  \/ LocateDeep
  \/ CheckEdgeStep
  \/ Poll
  \/ Finish
  \/ DeleteRing
  \/ AlphaFilter
  \/ RescueNext
  \/ RescueCell
  \/ Output

\* the insertion loop and the steps after it are sequential code, so a
\* step that can be taken is taken: weak fairness of NextDeep, written with
\* pc # "done" for the enabledness of a step
SpecDeep ==
  InitDeep /\ [][NextDeep]_vars /\ ([]<>(pc = "done") \/ []<><<NextDeep>>_vars)

\* a call at MAX_RECURSION_DEPTH or deeper warns and returns: no cell is
\* changed and no call is made
DepthStops ==
  (Pending /\ Head(stack).depth >= MAX_RECURSION_DEPTH) =>
    /\ cells' = cells /\ links' = links
    /\ stack' = Tail(stack)
    /\ "recursion" \in warnings'

\* the calls a call makes are deeper than it is
DepthGrows ==
  Pending =>
    \A k \in 1..(Len(stack') - Len(stack) + 1) : stack'[k].depth > Head(stack).depth

\* C23: a CheckEdge call at depth >= MAX_RECURSION_DEPTH flips nothing,
\* calls nothing and warns; every call a call makes is deeper than its
\* caller, so a chain of nested calls has no more than MAX_RECURSION_DEPTH
\* levels; the flipping for a point always comes to an end, and the run
\* then takes every remaining point and completes.
C23RecursionBounded ==
  /\ [][DepthStops /\ DepthGrows]_vars
  /\ [](\A k \in 1..Len(stack) : stack[k].depth <= MAX_RECURSION_DEPTH + 1)
  /\ [](Pending => <>(stack = <<>>))
  /\ <>(pc = "done")
  /\ [](pc = "done" /\ N > 2 => idx = N)

\* the depth limit was met and the loop is taking a further point
C23Witness ==
  /\ pc = "locate"
  /\ idx >= 1 /\ idx < N
  /\ "recursion" \in warnings

-----------------------------------------------------------------------------
(* C24                                                                     *)

\* the triangles of the mesh the ring points are triangulated into
RingTriangles == 6

\* the ids whose triangle a step rewrites
Rewritten == {t \in 0..(GetNumberOfCells(cells) - 1) : cells'[t + 1] # cells[t + 1]}

\* an insertion: the triangle found (and at an edge hit its neighbour) is
\* rewritten in place and two triangles are appended
InsertionAddsTwo ==
  (pc = "locate" /\ work'.found \in {"in", "edge"}) =>
    /\ GetNumberOfCells(cells') = GetNumberOfCells(cells) + 2
    /\ Rewritten = IF work'.found = "in" THEN {work'.tri}
                                         ELSE {work'.tri, work'.nei[1]}

\* every other step on the mesh keeps the number of triangles
OthersKeepCount ==
  (pc # "start" /\ ~(pc = "locate" /\ work'.found \in {"in", "edge"})) =>
    GetNumberOfCells(cells') = GetNumberOfCells(cells)

\* C24: an insertion rewrites one triangle (interior hit) or two (edge hit)
\* in place and appends two; flips, edge recovery and every later step keep
\* the number of triangles; so from the first pass of the loop to the end
\* of the loop the mesh holds 6 + 2 * (points inserted) triangles, and
\* each id below that number is a triangle of three different points.
C24TwoPerInsertion ==
  /\ [][InsertionAddsTwo /\ OthersKeepCount]_vars
  /\ [](pc \in {"locate", "flip", "finish"} =>
          /\ GetNumberOfCells(cells) = RingTriangles + 2 * Cardinality(Inserted)
          /\ \A t \in 1..Len(cells) : Cardinality(SeqToSet(cells[t])) = 3)

\* NumPts points were inserted and a constraint edge was recovered afterwards
C24Witness ==
  /\ pc = "recover"
  /\ \E k \in 1..Len(work.done) : work.done[k].result = "recovered"
  /\ GetNumberOfCells(cells) = RingTriangles + 2 * NumPts

-----------------------------------------------------------------------------
(* The run with a constraint source and a Transform.                       *)

\* a run with a source whose points a user-supplied Transform stretches:
\* the triangulation is of thin triangles, and the edges to recover cross
\* several of them
InitThin ==
  /\ inPts \in {s \in Inputs : Len(s) = NumPts}
  /\ BoundingTriangulation = FALSE
  /\ Alpha2 = 0
  /\ RandomPointInsertion = FALSE
  /\ Transform = "user"
  /\ ProjectionPlaneMode = "xy"
  /\ AbortExecute = FALSE
  /\ hasSource = TRUE
  /\ srcLines = <<>>
  /\ srcPolys = <<>>
  /\ InitRun

SpecThin == InitThin /\ [][NextSrc]_vars

-----------------------------------------------------------------------------
(* C25                                                                     *)

\* RecoverStep has just recovered an edge; the record of that recovery
Recovering ==
  /\ pc = "recover"
  /\ Len(work'.done) = Len(work.done) + 1
  /\ work'.done[Len(work'.done)].result = "recovered"

LastDone == work'.done[Len(work'.done)]

\* the ids the replacement step writes, one for each rewriting
Writes(d) == [j \in 1..Len(d.new) |-> d.tris[j]]

\* C25: when RecoverEdge succeeds there are as many replacement triangles
\* as triangles on the walk from p1 to p2; the replacement writes each id
\* of the walk exactly once, the j-th new triangle to the j-th id; no other
\* id is written, and unless a suspect edge is flipped afterwards the mesh
\* differs from the one before in the triangles of the walk alone.
C25ReplacementInPlace ==
  [][Recovering =>
       /\ Len(LastDone.new) = Len(LastDone.tris)
       /\ \A t \in SeqToSet(LastDone.tris) :
            Cardinality({j \in 1..Len(LastDone.new) : Writes(LastDone)[j] = t}) = 1
       /\ SeqToSet(Writes(LastDone)) \subseteq SeqToSet(LastDone.tris)
       /\ LET m == ReplaceTris(cells, links, LastDone.tris, LastDone.new, 1)
          IN  /\ \A j \in 1..Len(LastDone.tris) :
                   m.cells[LastDone.tris[j] + 1] = LastDone.new[j]
              /\ \A t \in 0..(Len(cells) - 1) :
                   t \notin SeqToSet(LastDone.tris) =>
                     m.cells[t + 1] = cells[t + 1] /\ cells'[t + 1] = cells[t + 1]
              /\ ~LastDone.flipped => cells' = m.cells]_vars

\* an edge was recovered across three triangles or more
C25Witness ==
  /\ pc = "recover"
  /\ \E k \in 1..Len(work.done) :
       /\ work.done[k].result = "recovered"
       /\ Len(work.done[k].tris) >= 3
       /\ Len(work.done[k].new) = Len(work.done[k].tris)

-----------------------------------------------------------------------------
(* C26                                                                     *)

\* the edges of a triangle, as sets of two points
TriEdges(tr) == {{tr[1], tr[2]}, {tr[2], tr[3]}, {tr[3], tr[1]}}

\* the edges of the new triangles of a recovery that are inside the
\* influence polygon (shared by two new triangles and not the recovered
\* edge) and are no constraint edge
InnerFreeEdges(d) ==
  {e \in UNION {TriEdges(d.new[j]) : j \in 1..Len(d.new)} :
     /\ e # {d.p1, d.p2}
     /\ Cardinality({j \in 1..Len(d.new) : e \in TriEdges(d.new[j])}) = 2
     /\ \A a, b \in e : a # b => ~SourceIsEdge(srcLines, srcPolys, a, b)}

\* the edges recorded as suspect, in recorded order
Recorded(d) == [i \in 1..Len(d.suspects) |-> {d.suspects[i][2], d.suspects[i][3]}]

RecoveredRecords ==
  IF pc = "recover" THEN {k \in 1..Len(work.done) : work.done[k].result = "recovered"}
  ELSE {}

\* C26: after a successful recovery the suspect list holds every edge of a
\* new triangle that is inside the influence polygon and is no constraint
\* edge, each once; the edges are checked in recorded order, all of them
\* when none is flipped and up to the first flip otherwise.
C26InnerEdgesCheckedOnce ==
  \A k \in RecoveredRecords :
    LET d == work.done[k]
    IN  /\ SeqToSet(Recorded(d)) = InnerFreeEdges(d)
        /\ \A i, j \in 1..Len(d.suspects) : i # j => Recorded(d)[i] # Recorded(d)[j]
        /\ d.checked <= Len(d.suspects)
        /\ ~d.flipped => d.checked = Len(d.suspects)

-----------------------------------------------------------------------------
(* C27                                                                     *)

\* the fill has run to its end: every polygon edge was a mesh edge
FilledAll == Filled /\ srcPolys # <<>> /\ ~EdgeNotRecovered(cells, links, srcPolys)

\* the marks before the k-th polygon is taken
MarksBefore(k) ==
  FillEach(cells, links, Fill(GetNumberOfCells(cells), 1), SubSeq(srcPolys, 1, k - 1), 1)

\* the marks and the front the edges of the k-th polygon leave
MarksOfEdges(k) ==
  MarkEdges(cells, links, [tu |-> MarksBefore(k), front |-> {}], PolyEdges(srcPolys[k]), 1)

\* the marks after the fill of the k-th polygon
MarksOfFlood(k) == Flood(cells, links, MarksOfEdges(k).tu, MarksOfEdges(k).front)

\* the edges of the polygons, as sets of two points
PolygonEdgeSets ==
  UNION {{{PolyEdges(srcPolys[k])[i][1], PolyEdges(srcPolys[k])[i][2]} :
            i \in 1..Len(srcPolys[k])} : k \in 1..Len(srcPolys)}

\* the triangles edge-adjacent to a triangle of S across an edge that is no
\* polygon edge
Beside(S) ==
  {n \in 0..(Len(cells) - 1) :
     \E c \in S : /\ Adjacent(cells, c + 1, n + 1)
                  /\ (SeqToSet(cells[c + 1]) \cap SeqToSet(cells[n + 1]))
                       \notin PolygonEdgeSets}

RECURSIVE Reachable(_)
Reachable(S) == IF Beside(S) \subseteq S THEN S ELSE Reachable(S \cup Beside(S))

\* the triangles the edges of the one polygon mark as outside
OutsideMarked == {c \in 0..(Len(cells) - 1) : MarksOfEdges(1).tu[c + 1] = 0}

\* C27: when FillPolygons runs to its end, the fill of each polygon changes
\* marks from 1 to 0 only, so a triangle marked -1 stays -1 until the end;
\* with one polygon the triangles marked 0 on return are the ones marked
\* outside by the polygon's edges and the ones reachable from them across
\* edges that are no polygon edge, and every other triangle is marked 1.
C27FloodStaysOutside ==
  FilledAll =>
    /\ \A k \in 1..Len(srcPolys) :
         LET marked  == MarksOfEdges(k).tu
             flooded == MarksOfFlood(k)
         IN  \A c \in 1..Len(cells) :
               flooded[c] # marked[c] => marked[c] = 1 /\ flooded[c] = 0
    /\ \A c \in 1..Len(triUse) : triUse[c] \in {0, 1}
    /\ Len(srcPolys) = 1 =>
         LET outside == Reachable(OutsideMarked)
         IN  \A c \in 0..(Len(cells) - 1) :
               triUse[c + 1] = IF c \in outside THEN 0 ELSE 1

\* one polygon was filled: triangles inside it were marked -1 by its edges
\* and are marked 1 on return, and a triangle not on the polygon was
\* reached by the fill
C27Witness ==
  /\ FilledAll
  /\ Len(srcPolys) = 1
  /\ \E c \in 1..Len(cells) : MarksOfEdges(1).tu[c] = 0 - 1 /\ triUse[c] = 1
  /\ \E c \in 1..Len(cells) : MarksOfEdges(1).tu[c] = 1 /\ triUse[c] = 0

-----------------------------------------------------------------------------
(* C28                                                                     *)

\* a run with Alpha set and the ring removed has written its output
AlphaOut == pc = "done" /\ out.returned = 1 /\ N > 2 /\ Alpha2 > 0 /\ ~BoundingTriangulation

\* the points of the triangles and of the lines of the output
InTriangle == UNION {SeqToSet(out.polys[k]) : k \in 1..Len(out.polys)}

OnLineCell == UNION {SeqToSet(out.lines[k]) : k \in 1..Len(out.lines)}

-----------------------------------------------------------------------------
(* C29                                                                     *)

\* the rescue pass swaps a diagonal in this step
Swapping == pc = "rescue" /\ work.i >= 1 /\ cells' # cells

\* the edge the step looks across: the edge of the triangle opposite the
\* orphan point, and the point beyond it
SwapEdge == RescueEdge(GetCellPoints(cells, work.cells[work.i]), work.ptId)

SwapThird ==
  RescueThird(GetCellPoints(cells,
                GetCellEdgeNeighbors(links, work.cells[work.i], SwapEdge[1], SwapEdge[2])[1]),
              SwapEdge[1], SwapEdge[2])

\* the dot product of the normals of the two candidate triangles is not
\* negative
NormalsAgree ==
  NormalZ(work.ptId, SwapEdge[1], SwapThird) * NormalZ(work.ptId, SwapThird, SwapEdge[2]) >= 0

\* C29 as stated: a diagonal is swapped only across an edge between two
\* input points, with normals that agree.
C29SwapBetweenInputPoints ==
  [][Swapping => SwapEdge[1] < N /\ SwapEdge[2] < N /\ NormalsAgree]_vars

\* C29: the rescue pass swaps a diagonal only across an edge of which at
\* least one end is an input point, and only when the normals of the two
\* candidate triangles have a dot product that is not negative; an edge
\* between two ring points is never swapped.
C29SwapNotBetweenRingPoints ==
  [][Swapping => (SwapEdge[1] < N \/ SwapEdge[2] < N) /\ NormalsAgree]_vars

\* a diagonal was swapped and a triangle of the orphan point is kept
C29Witness ==
  /\ pc = "rescue"
  /\ work.numSwaps >= 1
  /\ \E t \in 1..Len(cells) : triUse[t] = 1 /\ cells[t][1] = work.ptId

-----------------------------------------------------------------------------
(* C30                                                                     *)

\* C30: a Transform supplied by the user is still set when RequestData has
\* returned: no step of a run takes it away.
C30UserTransformKept ==
  [][Transform = "user" => Transform' = "user"]_vars

=============================================================================
